---- MODULE Spec2Model ----
(***************************************************************************)
(* A model of the astropix-python decoding core (core/fmt.py): the bit     *)
(* pattern, the AstroPix3/4 hit codecs, the readout framer and the binary  *)
(* container file (FileHeader, AstroPixBinaryFile).                         *)
(*                                                                         *)
(* Bytes are integers 0..255, byte strings are sequences of bytes, text is *)
(* a sequence of code points.  A Python exception is the field err of a    *)
(* result: "" means no exception was raised.                               *)
(***************************************************************************)
EXTENDS Integers, Sequences, FiniteSets, TLC

\* ------------------------------------------------------------------------
\* Bounds of the model
\* ------------------------------------------------------------------------

\* The largest number of pieces (frames, broken frames, fragments) of one
\* readout buffer.
MaxFrames == 2

\* The largest number of 0xFF pad bytes appended to a readout buffer.
MaxPad == 2

\* The largest number of hit records written to a container file.
MaxFileHits == 2

\* The largest number of bytes a container file loses at its end.
MaxCut == 7

\* The largest number of readouts an acquisition run counts.
MaxReadouts == 2

\* How far past the last bit the start and the stop of a bit slice go.
MaxOver == 4

\* How many bytes more than SIZE a buffer given to a hit constructor holds.
MaxExtra == 2

\* The Gray codes decoded: every value of the GrayLoBits low bits with
\* every value of the GrayHiBits high bits of the 17-bit counter.
GrayLoBits == 9

GrayHiBits == 3

\* The coarse counters composed: every value of the CoarseLoBits low bits
\* with every value of the CoarseHiBits high bits of the 14-bit counter.
CoarseLoBits == 5

CoarseHiBits == 2

\* The greatest number of pixels whose threshold is searched.
MaxPixels == 2

\* The greatest number of measurements followed for one pixel.
MaxMeasurements == 12

\* The greatest length of the data given to Spi.write_spi.
MaxSpiLen == 9

\* ------------------------------------------------------------------------
\* Sequences, Python slices
\* ------------------------------------------------------------------------

Min(a, b) == IF a < b THEN a ELSE b

Max(a, b) == IF a > b THEN a ELSE b

\* s[start:stop] of Python for start, stop >= 0: both ends are clamped to
\* the length and an empty range gives the empty sequence.
PySlice(s, start, stop) ==
    SubSeq(s, Min(start, Len(s)) + 1, Min(stop, Len(s)))

\* s[-n:] of Python for n > 0.
PyTail(s, n) == SubSeq(s, Max(Len(s) - n, 0) + 1, Len(s))

\* s[a:-n] of Python for a >= 0, n > 0.
PyMiddle(s, a, n) == SubSeq(s, Min(a, Len(s)) + 1, Max(Len(s) - n, 0))

RECURSIVE Concat(_)
Concat(ss) == IF ss = <<>> THEN <<>> ELSE Head(ss) \o Concat(Tail(ss))

Repeat(b, n) == [i \in 1..n |-> b]

\* ------------------------------------------------------------------------
\* Bits: f'{byte:08b}', int(text, 2), the bit reversal table
\* ------------------------------------------------------------------------

\* f'{byte:08b}': the 8 bits of a byte, most significant first.
Bits8(byte) == [i \in 1..8 |-> (byte \div (2 ^ (8 - i))) % 2]

\* int(text, 2) of a text of '0' and '1': a ValueError on the empty text.
RECURSIVE BitsValue(_)
BitsValue(bits) ==
    IF bits = <<>> THEN 0
    ELSE 2 * BitsValue(SubSeq(bits, 1, Len(bits) - 1)) + bits[Len(bits)]

IntBase2(bits) ==
    IF bits = <<>> THEN [err |-> "ValueError", val |-> 0]
    ELSE [err |-> "", val |-> BitsValue(bits)]

\* text[::-1]
Reversed(s) == [i \in 1..Len(s) |-> s[Len(s) + 1 - i]]

\* _BIT_REVERSE_TABLE[i] = int(f'{i:08b}'[::-1], 2)
BIT_REVERSE_TABLE(i) == BitsValue(Reversed(Bits8(i)))

\* A plausible slip: the byte order is reversed together with the bits.
reverse_bit_order_bytes_too(data) ==
    [i \in 1..Len(data) |-> BIT_REVERSE_TABLE(data[Len(data) + 1 - i])]

\* data.translate(_BIT_REVERSE_TABLE): every byte by itself.
reverse_bit_order(data) == [i \in 1..Len(data) |-> BIT_REVERSE_TABLE(data[i])]

\* A plausible slip: the bits of a byte are laid down least significant
\* first.
RECURSIVE BitPattern_lsb_first(_)
BitPattern_lsb_first(data) ==
    IF data = <<>> THEN <<>>
    ELSE Reversed(Bits8(Head(data))) \o BitPattern_lsb_first(Tail(data))

\* BitPattern.__new__: ''.join(f'{byte:08b}' for byte in data)
RECURSIVE BitPattern(_)
BitPattern(data) ==
    IF data = <<>> THEN <<>> ELSE Bits8(Head(data)) \o BitPattern(Tail(data))

\* BitPattern.__getitem__(slice(start, stop)): int(str[start:stop], 2)
BitPattern_getitem(pattern, start, stop) ==
    IntBase2(PySlice(pattern, start, stop))

\* ------------------------------------------------------------------------
\* The hit codec: AstroPixHitBase, AstroPix3Hit, AstroPix4Hit
\* ------------------------------------------------------------------------

Field(name, width) == [name |-> name, width |-> width]

\* AstroPix3Hit.SIZE
AstroPix3Hit_SIZE == 5

\* AstroPix3Hit.FIELD_DICT, in declaration order.
AstroPix3Hit_FIELD_DICT ==
    << Field("chip_id", 5), Field("payload", 3), Field("column", 1),
       Field("reserved1", 1), Field("location", 6), Field("timestamp", 8),
       Field("reserved2", 4), Field("tot_msb", 4), Field("tot_lsb", 8) >>

\* AstroPix3Hit.CLOCK_CYCLES_PER_US
AstroPix3Hit_CLOCK_CYCLES_PER_US == 200

\* AstroPix4Hit.SIZE
AstroPix4Hit_SIZE == 8

\* A plausible slip: the row is given 4 bits.
AstroPix4Hit_FIELD_DICT_narrow_row ==
    << Field("chip_id", 5), Field("payload", 3), Field("row", 4),
       Field("column", 5), Field("ts_neg1", 1), Field("ts_coarse1", 14),
       Field("ts_fine1", 3), Field("ts_tdc1", 5), Field("ts_neg2", 1),
       Field("ts_coarse2", 14), Field("ts_fine2", 3), Field("ts_tdc2", 5) >>

\* AstroPix4Hit.FIELD_DICT, in declaration order.
AstroPix4Hit_FIELD_DICT ==
    << Field("chip_id", 5), Field("payload", 3), Field("row", 5),
       Field("column", 5), Field("ts_neg1", 1), Field("ts_coarse1", 14),
       Field("ts_fine1", 3), Field("ts_tdc1", 5), Field("ts_neg2", 1),
       Field("ts_coarse2", 14), Field("ts_fine2", 3), Field("ts_tdc2", 5) >>

\* AstroPix4Hit.CLOCK_CYCLES_PER_US
AstroPix4Hit_CLOCK_CYCLES_PER_US == 20

\* AstroPix4Hit.CLOCK_ROLLOVER = 2**17
AstroPix4Hit_CLOCK_ROLLOVER == 2 ^ 17

\* The empty attribute dictionary.
NoFields == [n \in {} |-> 0]

\* The loop of AstroPixHitBase.__init__ from field k on: every field is
\* bit_pattern[pos:pos + width]; the first empty slice raises ValueError
\* (from int('', 2)) and the loop ends there.
RECURSIVE ExtractFields(_, _, _, _, _)
ExtractFields(pattern, fields, k, pos, acc) ==
    IF k > Len(fields) THEN [err |-> "", f |-> acc]
    ELSE LET r == BitPattern_getitem(pattern, pos, pos + fields[k].width)
         IN  IF r.err # "" THEN [err |-> r.err, f |-> acc]
             ELSE ExtractFields(pattern, fields, k + 1, pos + fields[k].width,
                                (fields[k].name :> r.val) @@ acc)

\* AstroPixHitBase.__init__(data): self._data = bytes(data), then the fields.
AstroPixHitBase_init(FIELD_DICT, data) ==
    LET r == ExtractFields(BitPattern(data), FIELD_DICT, 1, 0, NoFields)
    IN  [err |-> r.err, data |-> data, f |-> r.f]

\* a >> 1
ShiftRight1(a) == a \div 2

\* a ^ b of Python (bitwise exclusive or) for a, b >= 0.
RECURSIVE Xor(_, _)
Xor(a, b) ==
    IF a = 0 THEN b
    ELSE IF b = 0 THEN a
    ELSE 2 * Xor(a \div 2, b \div 2) + (((a % 2) + (b % 2)) % 2)

\* A plausible slip: the exclusive or is taken before the shift, so the
\* first pass cancels the value and the last shift is left out.
RECURSIVE GrayLoop_xor_first(_, _)
GrayLoop_xor_first(decimal, mask) ==
    IF mask = 0 THEN decimal
    ELSE GrayLoop_xor_first(Xor(decimal, mask), ShiftRight1(mask))

\* The while loop of gray_to_decimal: mask >>= 1; decimal ^= mask.
RECURSIVE GrayLoop(_, _)
GrayLoop(decimal, mask) ==
    IF mask = 0 THEN decimal
    ELSE GrayLoop(Xor(decimal, ShiftRight1(mask)), ShiftRight1(mask))

\* A plausible slip: one exclusive or with the shifted value, not the loop.
gray_to_decimal_one_shift(gray) == Xor(gray, ShiftRight1(gray))

\* AstroPixHitBase.gray_to_decimal
gray_to_decimal(gray) == GrayLoop(gray, gray)

\* A plausible slip: the coarse counter is shifted by 4 bits.
compose_timestamp_shift_four(ts_coarse, ts_fine) ==
    gray_to_decimal(ts_coarse * 16 + ts_fine)

\* AstroPix4Hit._compose_timestamp
compose_timestamp(ts_coarse, ts_fine) == gray_to_decimal(ts_coarse * 8 + ts_fine)

\* A float quotient num / den, kept exact.
Quotient(num, den) == [num |-> num, den |-> den]

\* Whether the quotient q equals the decimal literal units.hundredths.
QuotientIs(q, units, hundredths) ==
    q.num * 100 = (units * 100 + hundredths) * q.den

\* A hit object: its class, its raw bytes, its decoded fields f, its derived
\* fields d and the host timestamp. err # "" means the constructor raised
\* and there is no object.
HitObject(cls, base, d, timestamp) ==
    [cls |-> cls, err |-> base.err, data |-> base.data, f |-> base.f,
     d |-> d, timestamp |-> timestamp]

\* AstroPix3Hit.__init__(data)
AstroPix3Hit(data) ==
    LET base == AstroPixHitBase_init(AstroPix3Hit_FIELD_DICT, data)
    IN  IF base.err # "" THEN HitObject("AstroPix3Hit", base, NoFields, "None")
        ELSE LET tot == base.f["tot_msb"] * 256 + base.f["tot_lsb"]
             IN  HitObject("AstroPix3Hit", base,
                           [tot |-> tot,
                            tot_us |-> Quotient(tot, AstroPix3Hit_CLOCK_CYCLES_PER_US)],
                           "None")

\* A plausible slip: the rollover is added when the two timestamps are
\* equal, too (<= for <).
AstroPix4Hit_rollover_on_equal(data, timestamp) ==
    LET base == AstroPixHitBase_init(AstroPix4Hit_FIELD_DICT, data)
    IN  IF base.err # "" THEN HitObject("AstroPix4Hit", base, NoFields, "None")
        ELSE LET ts_dec1 == compose_timestamp(base.f["ts_coarse1"], base.f["ts_fine1"])
                 ts2     == compose_timestamp(base.f["ts_coarse2"], base.f["ts_fine2"])
                 ts_dec2 == IF ts2 <= ts_dec1
                            THEN ts2 + AstroPix4Hit_CLOCK_ROLLOVER ELSE ts2
             IN  HitObject("AstroPix4Hit", base,
                           [ts_dec1 |-> ts_dec1, ts_dec2 |-> ts_dec2,
                            tot_us |-> Quotient(ts_dec2 - ts_dec1,
                                                AstroPix4Hit_CLOCK_CYCLES_PER_US)],
                           timestamp)

\* AstroPix4Hit.__init__(data, timestamp)
AstroPix4Hit(data, timestamp) ==
    LET base == AstroPixHitBase_init(AstroPix4Hit_FIELD_DICT, data)
    IN  IF base.err # "" THEN HitObject("AstroPix4Hit", base, NoFields, "None")
        ELSE LET ts_dec1 == compose_timestamp(base.f["ts_coarse1"], base.f["ts_fine1"])
                 ts2     == compose_timestamp(base.f["ts_coarse2"], base.f["ts_fine2"])
                 ts_dec2 == IF ts2 < ts_dec1
                            THEN ts2 + AstroPix4Hit_CLOCK_ROLLOVER ELSE ts2
             IN  HitObject("AstroPix4Hit", base,
                           [ts_dec1 |-> ts_dec1, ts_dec2 |-> ts_dec2,
                            tot_us |-> Quotient(ts_dec2 - ts_dec1,
                                                AstroPix4Hit_CLOCK_CYCLES_PER_US)],
                           timestamp)

\* A plausible slip: the host timestamps are compared, too.
Hit_eq_with_timestamp(a, b) == a.data = b.data /\ a.timestamp = b.timestamp

\* AstroPixHitBase.__eq__: the raw bytes decide.
Hit_eq(a, b) == a.data = b.data


\* ------------------------------------------------------------------------
\* The readout framer: AstroPixReadout
\* ------------------------------------------------------------------------

\* AstroPixReadout.PADDING_BYTE = bytes.fromhex('ff')
PADDING_BYTE == 255

\* The byte 0xBC of the frame markers.
MARKER_BYTE == 188

\* AstroPixReadout.HIT_HEADER = bytes.fromhex('bcbc')
HIT_HEADER == << MARKER_BYTE, MARKER_BYTE >>

\* AstroPixReadout.HIT_TRAILER = bytes.fromhex('bcbcbcbcbcbc')
HIT_TRAILER == << MARKER_BYTE, MARKER_BYTE, MARKER_BYTE,
                  MARKER_BYTE, MARKER_BYTE, MARKER_BYTE >>

HIT_DATA_SIZE == AstroPix4Hit_SIZE

HIT_HEADER_LENGTH == Len(HIT_HEADER)

HIT_TRAILER_LENGTH == Len(HIT_TRAILER)

HIT_LENGTH == HIT_HEADER_LENGTH + HIT_DATA_SIZE + HIT_TRAILER_LENGTH

\* A plausible slip: one pad byte is removed, not the whole run.
rstrip_once(data, byte) ==
    IF data # <<>> /\ data[Len(data)] = byte
    THEN SubSeq(data, 1, Len(data) - 1) ELSE data

\* A plausible slip: the pad byte is removed wherever it stands
\* (data.replace(byte, b'')).
rstrip_everywhere(data, byte) == SelectSeq(data, LAMBDA b : b # byte)

\* data.rstrip(byte): the bytes equal to byte are removed from the end, up to
\* the last byte that differs.
RECURSIVE rstrip(_, _)
rstrip(data, byte) ==
    IF data # <<>> /\ data[Len(data)] = byte
    THEN rstrip(SubSeq(data, 1, Len(data) - 1), byte)
    ELSE data

\* The exceptions of the framer.
LengthError == "RuntimeError: Readout length not a multiple of HIT_LENGTH"

HeaderError == "RuntimeError: Wrong frame header"

TrailerError == "RuntimeError: Wrong frame trailer"

\* The while loop of AstroPixReadout.__decode from position pos on, hits
\* being the local list so far. A raise leaves the loop with the hits decoded
\* before it in the local list, which the caller never sees.
RECURSIVE DecodeLoop(_, _, _, _)
DecodeLoop(data, timestamp, pos, hits) ==
    IF ~(pos < Len(data)) THEN [err |-> "", hits |-> hits]
    ELSE LET hit_data == PySlice(data, pos, pos + HIT_LENGTH)
             header   == PySlice(hit_data, 0, HIT_HEADER_LENGTH)
             trailer  == PyTail(hit_data, HIT_TRAILER_LENGTH)
             payload  == PyMiddle(hit_data, HIT_HEADER_LENGTH, HIT_TRAILER_LENGTH)
             hit      == AstroPix4Hit(reverse_bit_order(payload), timestamp)
         IN  IF header # HIT_HEADER THEN [err |-> HeaderError, hits |-> hits]
             ELSE IF trailer # HIT_TRAILER THEN [err |-> TrailerError, hits |-> hits]
             ELSE IF hit.err # "" THEN [err |-> hit.err, hits |-> hits]
             ELSE DecodeLoop(data, timestamp, pos + HIT_LENGTH, Append(hits, hit))

\* A plausible slip: the trailer of a frame is not checked.
RECURSIVE DecodeLoopNoTrailer(_, _, _, _)
DecodeLoopNoTrailer(data, timestamp, pos, hits) ==
    IF ~(pos < Len(data)) THEN [err |-> "", hits |-> hits]
    ELSE LET hit_data == PySlice(data, pos, pos + HIT_LENGTH)
             header   == PySlice(hit_data, 0, HIT_HEADER_LENGTH)
             payload  == PyMiddle(hit_data, HIT_HEADER_LENGTH, HIT_TRAILER_LENGTH)
             hit      == AstroPix4Hit(reverse_bit_order(payload), timestamp)
         IN  IF header # HIT_HEADER THEN [err |-> HeaderError, hits |-> hits]
             ELSE IF hit.err # "" THEN [err |-> hit.err, hits |-> hits]
             ELSE DecodeLoopNoTrailer(data, timestamp, pos + HIT_LENGTH,
                                      Append(hits, hit))

AstroPixReadout_decode_no_trailer_check(data, timestamp) ==
    DecodeLoopNoTrailer(data, timestamp, 0, <<>>)

\* AstroPixReadout.__decode(reverse=True)
AstroPixReadout_decode(data, timestamp) == DecodeLoop(data, timestamp, 0, <<>>)

\* A readout object: err # "" means the constructor raised. has_hits says
\* whether self.hits was assigned; ndecoded counts the hits the call built,
\* exposed or not.
ReadoutObject(err, data, timestamp, has_hits, hits, ndecoded) ==
    [err |-> err, data |-> data, timestamp |-> timestamp,
     has_hits |-> has_hits, hits |-> hits, ndecoded |-> ndecoded]

\* A plausible slip: the length of the stripped buffer is never checked.
AstroPixReadout_init_no_length_check(data, timestamp) ==
    LET stripped == rstrip(data, PADDING_BYTE)
        r == AstroPixReadout_decode(stripped, timestamp)
    IN  IF r.err # ""
        THEN ReadoutObject(r.err, stripped, timestamp, FALSE, <<>>, Len(r.hits))
        ELSE ReadoutObject("", stripped, timestamp, TRUE, r.hits, Len(r.hits))

\* A plausible slip: the hits decoded before a broken frame are kept.
AstroPixReadout_init_salvage(data, timestamp) ==
    LET stripped == rstrip(data, PADDING_BYTE)
        r == AstroPixReadout_decode(stripped, timestamp)
    IN  IF Len(stripped) % HIT_LENGTH # 0
        THEN ReadoutObject(LengthError, stripped, "unset", FALSE, <<>>, 0)
        ELSE ReadoutObject(r.err, stripped, timestamp, TRUE, r.hits, Len(r.hits))

\* AstroPixReadout.__init__(data, timestamp)
AstroPixReadout_init(data, timestamp) ==
    LET stripped == rstrip(data, PADDING_BYTE)
        r == AstroPixReadout_decode(stripped, timestamp)
    IN  IF ~(Len(stripped) % HIT_LENGTH = 0)
        THEN ReadoutObject(LengthError, stripped, "unset", FALSE, <<>>, 0)
        ELSE IF r.err # ""
        THEN ReadoutObject(r.err, stripped, timestamp, FALSE, <<>>, Len(r.hits))
        ELSE ReadoutObject("", stripped, timestamp, TRUE, r.hits, Len(r.hits))

\* AstroPixReadout.__len__
AstroPixReadout_len(r) == Len(r.data)

\* AstroPixReadout.num_hits
num_hits(r) == AstroPixReadout_len(r) \div HIT_LENGTH

\* ------------------------------------------------------------------------
\* Python values and json.dumps / json.loads
\* ------------------------------------------------------------------------

\* A Python value: None, an int, a str (code points), a list, a tuple or a
\* dict (its items in insertion order, each a pair of key and value).
PyValue(t, n, str, items) == [t |-> t, n |-> n, s |-> str, items |-> items]

PyNone == PyValue("none", 0, <<>>, <<>>)

PyInt(n) == PyValue("int", n, <<>>, <<>>)

PyStr(str) == PyValue("str", 0, str, <<>>)

PyList(items) == PyValue("list", 0, <<>>, items)

PyTuple(items) == PyValue("tuple", 0, <<>>, items)

PyPair(k, v) == PyValue("pair", 0, <<>>, << k, v >>)

PyDict(pairs) == PyValue("dict", 0, <<>>, pairs)

\* str(n) of an int n >= 0, as code points ('0' is 48).
RECURSIVE IntStr(_)
IntStr(n) == IF n < 10 THEN << 48 + n >> ELSE IntStr(n \div 10) \o << 48 + (n % 10) >>

\* One digit of '{0:04x}'.
HexDigit(d) == IF d < 10 THEN 48 + d ELSE 97 + (d - 10)

\* json.encoder.py_encode_basestring_ascii, one character: \" and \\, the
\* short escapes of the control characters, \uXXXX outside ' '..'~'.
EscapeChar(c) ==
    IF c = 34 THEN << 92, 34 >>
    ELSE IF c = 92 THEN << 92, 92 >>
    ELSE IF c = 10 THEN << 92, 110 >>
    ELSE IF c = 13 THEN << 92, 114 >>
    ELSE IF c = 9 THEN << 92, 116 >>
    ELSE IF c >= 32 /\ c <= 126 THEN << c >>
    ELSE << 92, 117, HexDigit((c \div 4096) % 16), HexDigit((c \div 256) % 16),
            HexDigit((c \div 16) % 16), HexDigit(c % 16) >>

EncodeStr(str) ==
    << 34 >> \o Concat([i \in 1..Len(str) |-> EscapeChar(str[i])]) \o << 34 >>

\* ', '.join(parts)
RECURSIVE JoinComma(_)
JoinComma(parts) ==
    IF parts = <<>> THEN <<>>
    ELSE IF Len(parts) = 1 THEN parts[1]
    ELSE parts[1] \o << 44, 32 >> \o JoinComma(Tail(parts))

\* json.dumps(value) with the default separators (', ' and ': ') and
\* ensure_ascii: a tuple is written as a list, an int or None key of a dict
\* as a string.
RECURSIVE JsonDumps(_)
JsonDumps(v) ==
    IF v.t = "none" THEN << 110, 117, 108, 108 >>
    ELSE IF v.t = "int" THEN IntStr(v.n)
    ELSE IF v.t = "str" THEN EncodeStr(v.s)
    ELSE IF v.t \in { "list", "tuple" }
    THEN << 91 >> \o JoinComma([i \in 1..Len(v.items) |-> JsonDumps(v.items[i])])
         \o << 93 >>
    ELSE << 123 >>
         \o JoinComma([i \in 1..Len(v.items) |->
                LET k == v.items[i].items[1]
                    keytext == IF k.t = "str" THEN EncodeStr(k.s)
                               ELSE << 34 >> \o JsonDumps(k) \o << 34 >>
                IN  keytext \o << 58, 32 >> \o JsonDumps(v.items[i].items[2])])
         \o << 125 >>

\* The result of a parsing step: ok, the value, and the place after it.
Parsed(ok, val, pos) == [ok |-> ok, val |-> val, pos |-> pos]

ParseFail == Parsed(FALSE, PyNone, 0)

\* The character at place i (from 0), or -1 past the end.
CharAt(text, i) == IF i < Len(text) THEN text[i + 1] ELSE -1

\* WHITESPACE.match(s, end).end()
RECURSIVE SkipWs(_, _)
SkipWs(text, i) ==
    IF CharAt(text, i) \in { 32, 9, 10, 13 } THEN SkipWs(text, i + 1) ELSE i

IsDigit(c) == c >= 48 /\ c <= 57

HexValue(c) ==
    IF c >= 48 /\ c <= 57 THEN c - 48
    ELSE IF c >= 97 /\ c <= 102 THEN c - 87
    ELSE IF c >= 65 /\ c <= 70 THEN c - 55
    ELSE -1

\* json.decoder.py_scanstring from place i, after the opening quote.
RECURSIVE ScanString(_, _, _)
ScanString(text, i, acc) ==
    LET c == CharAt(text, i)
        e == CharAt(text, i + 1)
        h == [k \in 1..4 |-> HexValue(CharAt(text, i + 1 + k))]
    IN  IF c = -1 THEN ParseFail
        ELSE IF c = 34 THEN Parsed(TRUE, PyStr(acc), i + 1)
        ELSE IF c < 32 THEN ParseFail
        ELSE IF c # 92 THEN ScanString(text, i + 1, Append(acc, c))
        ELSE IF e \in { 34, 92, 47 } THEN ScanString(text, i + 2, Append(acc, e))
        ELSE IF e = 110 THEN ScanString(text, i + 2, Append(acc, 10))
        ELSE IF e = 114 THEN ScanString(text, i + 2, Append(acc, 13))
        ELSE IF e = 116 THEN ScanString(text, i + 2, Append(acc, 9))
        ELSE IF e = 98 THEN ScanString(text, i + 2, Append(acc, 8))
        ELSE IF e = 102 THEN ScanString(text, i + 2, Append(acc, 12))
        ELSE IF e = 117 /\ \A k \in 1..4 : h[k] >= 0
        THEN ScanString(text, i + 6,
                        Append(acc, ((h[1] * 16 + h[2]) * 16 + h[3]) * 16 + h[4]))
        ELSE ParseFail

\* The digits of an integer from place i on.
RECURSIVE ScanDigits(_, _, _)
ScanDigits(text, i, n) ==
    IF IsDigit(CharAt(text, i))
    THEN ScanDigits(text, i + 1, 10 * n + (CharAt(text, i) - 48))
    ELSE Parsed(TRUE, PyInt(n), i)

\* json.scanner.py_make_scanner._scan_once, JSONArray and JSONObject, for
\* the values of the model: null, integers, strings, arrays and objects.
RECURSIVE ScanOnce(_, _)
RECURSIVE ScanArray(_, _, _)
RECURSIVE ScanObject(_, _, _)
ScanOnce(text, i) ==
    LET c == CharAt(text, i)
    IN  IF c = 34 THEN ScanString(text, i + 1, <<>>)
        ELSE IF c = 123
        THEN LET j == SkipWs(text, i + 1)
             IN  IF CharAt(text, j) = 125 THEN Parsed(TRUE, PyDict(<<>>), j + 1)
                 ELSE ScanObject(text, j, <<>>)
        ELSE IF c = 91
        THEN LET j == SkipWs(text, i + 1)
             IN  IF CharAt(text, j) = 93 THEN Parsed(TRUE, PyList(<<>>), j + 1)
                 ELSE ScanArray(text, j, <<>>)
        ELSE IF c = 110
        THEN IF PySlice(text, i, i + 4) = << 110, 117, 108, 108 >>
             THEN Parsed(TRUE, PyNone, i + 4) ELSE ParseFail
        ELSE IF c = 48 THEN Parsed(TRUE, PyInt(0), i + 1)
        ELSE IF IsDigit(c) THEN ScanDigits(text, i, 0)
        ELSE ParseFail

\* JSONArray from the place i of its next value, acc the values so far.
ScanArray(text, i, acc) ==
    LET r == ScanOnce(text, i)
        j == SkipWs(text, r.pos)
    IN  IF ~r.ok THEN ParseFail
        ELSE IF CharAt(text, j) = 93 THEN Parsed(TRUE, PyList(Append(acc, r.val)), j + 1)
        ELSE IF CharAt(text, j) = 44
        THEN ScanArray(text, SkipWs(text, j + 1), Append(acc, r.val))
        ELSE ParseFail

\* JSONObject from the place i of its next key, acc the pairs so far.
ScanObject(text, i, acc) ==
    LET k == IF CharAt(text, i) = 34 THEN ScanString(text, i + 1, <<>>) ELSE ParseFail
        c == SkipWs(text, k.pos)
        v == ScanOnce(text, SkipWs(text, c + 1))
        j == SkipWs(text, v.pos)
    IN  IF ~k.ok THEN ParseFail
        ELSE IF CharAt(text, c) # 58 THEN ParseFail
        ELSE IF ~v.ok THEN ParseFail
        ELSE IF CharAt(text, j) = 125
        THEN Parsed(TRUE, PyDict(Append(acc, PyPair(k.val, v.val))), j + 1)
        ELSE IF CharAt(text, j) = 44
        THEN ScanObject(text, SkipWs(text, j + 1), Append(acc, PyPair(k.val, v.val)))
        ELSE ParseFail

\* json.loads(text): one value, white space around it, nothing else;
\* JSONDecodeError otherwise.
JsonLoads(text) ==
    LET r == ScanOnce(text, SkipWs(text, 0))
    IN  IF r.ok /\ SkipWs(text, r.pos) = Len(text)
        THEN [err |-> "", val |-> r.val]
        ELSE [err |-> "JSONDecodeError", val |-> PyNone]

\* ------------------------------------------------------------------------
\* str.encode('utf-8'), bytes.decode('utf-8'), struct.pack / unpack
\* ------------------------------------------------------------------------

\* One code point (below 0x10000, no surrogate) in UTF-8.
Utf8Char(c) ==
    IF c < 128 THEN << c >>
    ELSE IF c < 2048 THEN << 192 + (c \div 64), 128 + (c % 64) >>
    ELSE << 224 + (c \div 4096), 128 + ((c \div 64) % 64), 128 + (c % 64) >>

\* text.encode('utf-8')
Utf8Encode(text) == Concat([i \in 1..Len(text) |-> Utf8Char(text[i])])

\* Whether the byte at place i (from 1) of data exists and lies in lo..hi.
ByteIn(data, i, lo, hi) == i <= Len(data) /\ data[i] >= lo /\ data[i] <= hi

\* data.decode('utf-8') from place i on (strict): UnicodeDecodeError on a
\* byte that starts no sequence, on a wrong or missing continuation byte, on
\* an overlong form and on a surrogate.
RECURSIVE Utf8DecodeFrom(_, _, _)
Utf8DecodeFrom(data, i, acc) ==
    IF i > Len(data) THEN [err |-> "", text |-> acc]
    ELSE LET b == data[i]
             bad == [err |-> "UnicodeDecodeError", text |-> <<>>]
         IN  IF b < 128 THEN Utf8DecodeFrom(data, i + 1, Append(acc, b))
             ELSE IF b >= 194 /\ b <= 223
             THEN IF ByteIn(data, i + 1, 128, 191)
                  THEN Utf8DecodeFrom(data, i + 2,
                           Append(acc, (b - 192) * 64 + (data[i + 1] - 128)))
                  ELSE bad
             ELSE IF b >= 224 /\ b <= 239
             THEN IF /\ ByteIn(data, i + 1, IF b = 224 THEN 160 ELSE 128,
                                            IF b = 237 THEN 159 ELSE 191)
                     /\ ByteIn(data, i + 2, 128, 191)
                  THEN Utf8DecodeFrom(data, i + 3,
                           Append(acc, ((b - 224) * 64 + (data[i + 1] - 128)) * 64
                                       + (data[i + 2] - 128)))
                  ELSE bad
             ELSE IF b >= 240 /\ b <= 244
             THEN IF /\ ByteIn(data, i + 1, IF b = 240 THEN 144 ELSE 128,
                                            IF b = 244 THEN 143 ELSE 191)
                     /\ ByteIn(data, i + 2, 128, 191)
                     /\ ByteIn(data, i + 3, 128, 191)
                  THEN Utf8DecodeFrom(data, i + 4,
                           Append(acc, (((b - 240) * 64 + (data[i + 1] - 128)) * 64
                                        + (data[i + 2] - 128)) * 64
                                       + (data[i + 3] - 128)))
                  ELSE bad
             ELSE bad

\* data.decode('utf-8')
Utf8Decode(data) == Utf8DecodeFrom(data, 1, <<>>)

\* struct.calcsize('I')
HEADER_LENGTH_SIZE == 4

\* The 4 bytes of n < 2^32, least significant first.
LittleEndian4(n) == [i \in 1..4 |-> (n \div (256 ^ (i - 1))) % 256]

\* A plausible slip: the length is packed in the byte order the host does
\* not have.
struct_pack_I_swapped(n, order) ==
    IF order = "little" THEN Reversed(LittleEndian4(n)) ELSE LittleEndian4(n)

\* struct.pack('I', n): 4 bytes in the byte order of the host.
struct_pack_I(n, order) ==
    IF order = "little" THEN LittleEndian4(n) ELSE Reversed(LittleEndian4(n))

\* struct.unpack('I', data)[0]: struct.error unless data has 4 bytes.
struct_unpack_I(data, order) ==
    IF Len(data) # HEADER_LENGTH_SIZE THEN [err |-> "struct.error", val |-> 0]
    ELSE LET le == IF order = "little" THEN data ELSE Reversed(data)
         IN  [err |-> "",
              val |-> le[1] + 256 * (le[2] + 256 * (le[3] + 256 * le[4]))]

\* ------------------------------------------------------------------------
\* The container file: FileHeader, hit records, AstroPixBinaryFile
\* ------------------------------------------------------------------------

\* input_file.read(n) at place pos (from 0): the bytes that are there, fewer
\* than n at the end of the file, and the place after them.
FileRead(file, pos, n) ==
    [data |-> PySlice(file, pos, pos + n), pos |-> Min(pos + n, Len(file))]

\* FileHeader.MAGIC_WORD = '%APXDF'
MAGIC_WORD == << 37, 65, 80, 88, 68, 70 >>

MagicError == "RuntimeError: Invalid magic word"

\* FileHeader.write: the bytes it writes to the output file.
FileHeader_write(content, order) ==
    LET data == Utf8Encode(JsonDumps(content))
    IN  Utf8Encode(MAGIC_WORD) \o struct_pack_I(Len(data), order) \o data

\* A plausible slip: the length field is taken for a 2-byte one
\* (struct format 'H') when read.
FileHeader_read_short_length(file, pos, order) ==
    LET m == FileRead(file, pos, Len(MAGIC_WORD))
        l == FileRead(file, m.pos, 2)
        n == l.data[1] + 256 * l.data[2]
        c == FileRead(file, l.pos, n)
        json == JsonLoads(Utf8Decode(c.data).text)
    IN  IF Utf8Decode(m.data).text # MAGIC_WORD
        THEN [err |-> MagicError, content |-> PyNone, pos |-> m.pos]
        ELSE IF Len(l.data) # 2
        THEN [err |-> "struct.error", content |-> PyNone, pos |-> l.pos]
        ELSE [err |-> json.err, content |-> json.val, pos |-> c.pos]

\* FileHeader.read at place pos of the file: the exception raised, the
\* content of the header, and the place the file is left at.
FileHeader_read(file, pos, order) ==
    LET m == FileRead(file, pos, Len(MAGIC_WORD))
        magic == Utf8Decode(m.data)
        l == FileRead(file, m.pos, HEADER_LENGTH_SIZE)
        header_length == struct_unpack_I(l.data, order)
        c == FileRead(file, l.pos, header_length.val)
        text == Utf8Decode(c.data)
        json == JsonLoads(text.text)
    IN  IF magic.err # "" THEN [err |-> magic.err, content |-> PyNone, pos |-> m.pos]
        ELSE IF magic.text # MAGIC_WORD
        THEN [err |-> MagicError, content |-> PyNone, pos |-> m.pos]
        ELSE IF header_length.err # ""
        THEN [err |-> header_length.err, content |-> PyNone, pos |-> l.pos]
        ELSE IF text.err # "" THEN [err |-> text.err, content |-> PyNone, pos |-> c.pos]
        ELSE IF json.err # "" THEN [err |-> json.err, content |-> PyNone, pos |-> c.pos]
        ELSE [err |-> "", content |-> json.val, pos |-> c.pos]

\* FileHeader.__eq__: the contents decide.
FileHeader_eq(a, b) == a = b

\* A plausible slip: every record is followed by a line break.
Hit_write_with_newline(hit) == hit.data \o << 10 >>

\* AstroPixHitBase.write: the bytes it writes to the output file.
Hit_write(hit) == hit.data

\* The hit classes a file is written or read with.
HitClasses == { "AstroPix3Hit", "AstroPix4Hit" }

\* hit_class.SIZE
SizeOf(cls) == IF cls = "AstroPix4Hit" THEN AstroPix4Hit_SIZE ELSE AstroPix3Hit_SIZE

\* A plausible slip: a hit read from a file is given a host time.
NewHit_stamped(cls, data) ==
    IF cls = "AstroPix4Hit" THEN AstroPix4Hit(data, "t1") ELSE AstroPix3Hit(data)

\* hit_class(data)
NewHit(cls, data) ==
    IF cls = "AstroPix4Hit" THEN AstroPix4Hit(data, "None") ELSE AstroPix3Hit(data)

\* AstroPixBinaryFile._EXTENSION = '.apx'
EXTENSION == << 46, 97, 112, 120 >>

\* file_path.endswith(suffix)
EndsWith(text, suffix) ==
    /\ Len(text) >= Len(suffix)
    /\ SubSeq(text, Len(text) - Len(suffix) + 1, Len(text)) = suffix

ExtensionError == "RuntimeError: Input file has not the .apx extension"

\* A plausible slip: a record cut short is taken for the end of the file.
AstroPixBinaryFile_next_short_is_end(cls, file, pos) ==
    LET r == FileRead(file, pos, SizeOf(cls))
        hit == NewHit(cls, r.data)
    IN  IF Len(r.data) < SizeOf(cls)
        THEN [kind |-> "stop", err |-> "", hit |-> hit, pos |-> r.pos]
        ELSE [kind |-> "hit", err |-> "", hit |-> hit, pos |-> r.pos]

\* A plausible slip: a pull reads at the place the file is at but leaves the
\* file there (a seek back after the read).
AstroPixBinaryFile_next_rewinds(cls, file, pos) ==
    LET r == FileRead(file, pos, SizeOf(cls))
        hit == NewHit(cls, r.data)
    IN  IF r.data = <<>> THEN [kind |-> "stop", err |-> "", hit |-> hit, pos |-> pos]
        ELSE IF hit.err # ""
        THEN [kind |-> "error", err |-> hit.err, hit |-> hit, pos |-> pos]
        ELSE [kind |-> "hit", err |-> "", hit |-> hit, pos |-> pos]

\* AstroPixBinaryFile.__next__: the result of one pull is "hit" with the hit,
\* "stop" for StopIteration or "error" with the exception of the hit
\* constructor, and the place the file is left at.
AstroPixBinaryFile_next(cls, file, pos) ==
    LET r == FileRead(file, pos, SizeOf(cls))
        hit == NewHit(cls, r.data)
    IN  IF r.data = <<>> THEN [kind |-> "stop", err |-> "", hit |-> hit, pos |-> r.pos]
        ELSE IF hit.err # ""
        THEN [kind |-> "error", err |-> hit.err, hit |-> hit, pos |-> r.pos]
        ELSE [kind |-> "hit", err |-> "", hit |-> hit, pos |-> r.pos]

\* The header contents of the model: None, {}, {"v": 1},
\* {"c": [10, "é\""]}, and two that json changes: the tuple (1,), read
\* back as the list [1], and {1: None}, read back as {"1": None}.
Contents ==
    { PyNone,
      PyDict(<<>>),
      PyDict(<< PyPair(PyStr(<< 118 >>), PyInt(1)) >>),
      PyDict(<< PyPair(PyStr(<< 99 >>),
                       PyList(<< PyInt(10), PyStr(<< 233, 34 >>) >>)) >>),
      PyTuple(<< PyInt(1) >>),
      PyDict(<< PyPair(PyInt(1), PyNone) >>) }

\* ------------------------------------------------------------------------
\* Readout buffers given to the framer
\* ------------------------------------------------------------------------

\* The two hit payloads of the sample readout of tests/test_fmt.py.
MockPayload0 == << 224, 128, 86, 232, 13, 168, 84, 3 >>

MockPayload1 == << 224, 128, 210, 111, 4, 202, 48, 5 >>

\* Hit payloads on the wire: the two of the sample readout, one of pad bytes
\* only and one of marker bytes only.
Payloads ==
    { MockPayload0, MockPayload1,
      Repeat(PADDING_BYTE, HIT_DATA_SIZE), Repeat(MARKER_BYTE, HIT_DATA_SIZE) }

Piece(kind, bytes) == [kind |-> kind, bytes |-> bytes]

\* A well-formed frame: bcbc, the payload, bcbcbcbcbcbc.
Frame(payload) == Piece("frame", HIT_HEADER \o payload \o HIT_TRAILER)

\* What a buffer is made of: well-formed frames, a frame with a wrong header,
\* frames with a wrong trailer, and fragments shorter than a frame.
Pieces ==
    { Frame(p) : p \in Payloads }
    \cup { Piece("badheader", << MARKER_BYTE, 0 >> \o MockPayload0 \o HIT_TRAILER),
           Piece("badtrailer", HIT_HEADER \o MockPayload1 \o
                               << 0, MARKER_BYTE, MARKER_BYTE,
                                  MARKER_BYTE, MARKER_BYTE, MARKER_BYTE >>),
           Piece("badtrailer", HIT_HEADER \o MockPayload0 \o
                               << MARKER_BYTE, MARKER_BYTE, MARKER_BYTE,
                                  MARKER_BYTE, MARKER_BYTE, 0 >>),
           Piece("fragment", << MARKER_BYTE >>),
           Piece("fragment", HIT_HEADER \o Repeat(PADDING_BYTE, HIT_DATA_SIZE)) }

\* Host timestamps (time.time()), or None.
Timestamps == { "None", "t1" }

\* ------------------------------------------------------------------------
\* State
\* ------------------------------------------------------------------------

VARIABLES
    phase,      \* "filling": the board fills its buffer; "decoded": the
                \* buffer was handed to AstroPixReadout
    rawbuf,     \* the readout buffer of the board
    inPieces,   \* the pieces rawbuf is made of
    inPad,      \* the number of pad bytes that follow them in rawbuf
    readout,    \* what AstroPixReadout(rawbuf, timestamp) left
    byteorder,  \* the byte order of the host: "little" or "big"
    disk,       \* the bytes of the container file
    wstate,     \* the output file: "none", "open", "header" (open, the
                \* header written), "closed"
    wcls,       \* the class of the hits written to the file
    wContent,   \* the content of the header written to the file
    wHits,      \* the hits written to the file, in order
    cut,        \* the number of bytes the file lost at its end
    rd,         \* the AstroPixBinaryFile the file is read with
    rHits,      \* the hits pulled from the file, in order
    damage,     \* what happened to the head of the file before it is read:
                \* "none", "byte" (a byte of the magic word replaced) or
                \* "short" (the file is shorter than the magic word)
    run,        \* the acquisition run of apx4_read.main
    calc,       \* the last call of a function of the hit codec
    tool,       \* the last call of apxdf_to_csv or playback_file
    scan,       \* the threshold search of thresholdScan_binsearch
    spi         \* the call of Spi.write_spi

readoutVars == << phase, rawbuf, inPieces, inPad, readout >>

fileVars == << byteorder, disk, wstate, wcls, wContent, wHits, cut, rd, rHits, damage >>

auxVars == << tool, scan, spi >>

vars == << readoutVars, fileVars, run, calc, auxVars >>

\* No readout object yet.
NoReadout == ReadoutObject("", <<>>, "unset", FALSE, <<>>, 0)

InitReadout ==
    /\ phase = "filling"
    /\ rawbuf = <<>>
    /\ inPieces = <<>>
    /\ inPad = 0
    /\ readout = NoReadout

\* An AstroPixBinaryFile: state is "idle" before open(), "open" inside the
\* with block, "closed" after it and "failed" once an exception left it;
\* handle is the file object of open(file_path, 'rb'): "none", "open" or
\* "closed"; input_file is self._input_file; last is the result of the last
\* pull.
Reader(state, cls, pos, header, err, handle, input_file, last) ==
    [state |-> state, cls |-> cls, pos |-> pos, header |-> header, err |-> err,
     handle |-> handle, input_file |-> input_file, last |-> last]

InitFile ==
    /\ byteorder \in { "little", "big" }
    /\ disk = <<>>
    /\ wstate = "none"
    /\ wcls = "AstroPix4Hit"
    /\ wContent = PyNone
    /\ wHits = <<>>
    /\ cut = 0
    /\ rd = Reader("idle", "AstroPix4Hit", 0, PyNone, "", "none", "None", "none")
    /\ rHits = <<>>
    /\ damage = "none"

\* The acquisition run of apx4_read.main: state is "idle" before the output
\* file is opened, "loop" from there to the end of the event loop, "stopped"
\* after a stop condition and "interrupted" after a keyboard interrupt (both
\* followed by the code after the loop), "crashed" when an exception left
\* main; num_readouts is the counter of main; k is the number of hits of the
\* current readout already written.
Run(state, n, k) == [state |-> state, num_readouts |-> n, k |-> k]

InitRun == run = Run("idle", 0, 0)

\* No hit: what a call that builds no hit leaves in the hit field.
NoHit == HitObject("", [err |-> "", data |-> <<>>, f |-> NoFields], NoFields, "unset")

\* A call of the hit codec: the function, its arguments (data, start and
\* stop, cls, n) and what it gave (err, val, hit); other is the second hit
\* of a call that takes two.
Calc(op, data, start, stop, cls, n, err, val, hit) ==
    [op |-> op, data |-> data, start |-> start, stop |-> stop, cls |-> cls,
     n |-> n, err |-> err, val |-> val, hit |-> hit, other |-> NoHit]

NoCalc == Calc("none", <<>>, 0, 0, "", 0, "", 0, NoHit)

InitCalc == calc = NoCalc

\* A call of apxdf_to_csv (op "csv") or playback_file (op "playback"): pc is
\* "loop" inside the for statement over the input file and "done" once the
\* call returned or an exception left it (err); cls is hit_class; pos is the
\* place the input file is at and i the number of hits pulled; then the path
\* and the text of the output file and whether it was created, and what was
\* printed.
Tool(op, pc, cls, file_path, shown, err, pos, i, output_file_path, created, text, stdout) ==
    [op |-> op, pc |-> pc, cls |-> cls, file_path |-> file_path, num_hits |-> shown,
     err |-> err, pos |-> pos, i |-> i, output_file_path |-> output_file_path,
     created |-> created, text |-> text, stdout |-> stdout]

NoTool == Tool("none", "done", "", <<>>, 0, "", 0, 0, <<>>, FALSE, <<>>, <<>>)

InitTool == tool = NoTool

\* The threshold search: pc is "idle" between two pixels and "search" inside
\* the while loop; pixel counts the pixels searched; n counts the
\* measurements made for the current pixel.
Scan(pc, pixel, vth_start, vth_stop, vth_val, n) ==
    [pc |-> pc, pixel |-> pixel, vth_start |-> vth_start, vth_stop |-> vth_stop,
     vth_val |-> vth_val, n |-> n]

InitScan == scan = Scan("idle", 0, 0, 0, 0, 0)

\* A call of Spi.write_spi: pc is "idle" outside it, "waiting" in the first
\* loop, "sending" in the second and "returned" at the return; counter is
\* kept in thirds (3 * counter); sent holds the buffers given to
\* direct_write_spi, in order.
SpiCall(pc, data, buffersize, i, writebuffer, counter, sent) ==
    [pc |-> pc, data |-> data, buffersize |-> buffersize, i |-> i,
     writebuffer |-> writebuffer, counter |-> counter, sent |-> sent]

InitSpi == spi = SpiCall("idle", <<>>, 0, 0, <<>>, 0, <<>>)

Init == InitReadout /\ InitFile /\ InitRun /\ InitCalc /\ InitTool /\ InitScan /\ InitSpi

\* The board puts one more frame (or broken frame, or fragment) in its buffer.
BoardFrame ==
    /\ phase = "filling"
    /\ inPad = 0
    /\ Len(inPieces) < MaxFrames
    /\ \E p \in Pieces :
        /\ inPieces' = Append(inPieces, p)
        /\ rawbuf' = rawbuf \o p.bytes
    /\ UNCHANGED << phase, inPad, readout >>
    /\ UNCHANGED << fileVars, run, calc, auxVars >>

\* The board pads its buffer with one more 0xFF byte.
BoardPad ==
    /\ phase = "filling"
    /\ inPad < MaxPad
    /\ inPad' = inPad + 1
    /\ rawbuf' = Append(rawbuf, PADDING_BYTE)
    /\ UNCHANGED << phase, inPieces, readout >>
    /\ UNCHANGED << fileVars, run, calc, auxVars >>

\* readout = AstroPixReadout(readout_data, timestamp)
NewReadout ==
    /\ phase = "filling"
    /\ \E ts \in Timestamps : readout' = AstroPixReadout_init(rawbuf, ts)
    /\ phase' = "decoded"
    /\ UNCHANGED << rawbuf, inPieces, inPad >>
    /\ UNCHANGED << fileVars, run, calc, auxVars >>

\* The next readout buffer: the board starts over.
NextBuffer ==
    /\ phase = "decoded"
    /\ phase' = "filling"
    /\ rawbuf' = <<>>
    /\ inPieces' = <<>>
    /\ inPad' = 0
    /\ readout' = NoReadout
    /\ UNCHANGED << fileVars, run, calc, auxVars >>

NextReadout == BoardFrame \/ BoardPad \/ NewReadout \/ NextBuffer

SpecReadout == Init /\ [][NextReadout]_vars

\* ------------------------------------------------------------------------
\* Writing a container file and reading it back
\* ------------------------------------------------------------------------

\* The raw bytes of the hits written to a file: for AstroPix4, the hits of
\* the two frames of the sample readout; for AstroPix3, two 5-byte records.
WriteData(cls) ==
    IF cls = "AstroPix4Hit"
    THEN { reverse_bit_order(MockPayload0), reverse_bit_order(MockPayload1) }
    ELSE { << 224, 128, 86, 232, 13 >>, << 7, 1, 106, 23, 176 >> }

\* The paths a file is opened with: d.apx and d.csv.
Paths == { << 100 >> \o EXTENSION, << 100, 46, 99, 115, 118 >> }

\* output_file = open(data_file_path, 'wb')
OpenOutput ==
    /\ wstate = "none"
    /\ wstate' = "open"
    /\ disk' = <<>>
    /\ wcls' \in HitClasses
    /\ UNCHANGED << damage, byteorder, wContent, wHits, cut, rd, rHits >>
    /\ UNCHANGED << readoutVars, run, calc, auxVars >>

\* header.write(output_file)
WriteHeader ==
    /\ wstate = "open"
    /\ \E content \in Contents :
        /\ disk' = disk \o FileHeader_write(content, byteorder)
        /\ wContent' = content
    /\ wstate' = "header"
    /\ UNCHANGED << damage, byteorder, wcls, wHits, cut, rd, rHits >>
    /\ UNCHANGED << readoutVars, run, calc, auxVars >>

\* hit.write(output_file)
WriteHit ==
    /\ wstate = "header"
    /\ Len(wHits) < MaxFileHits
    /\ \E data \in WriteData(wcls) :
        LET hit == IF wcls = "AstroPix4Hit"
                   THEN AstroPix4Hit(data, "t1") ELSE AstroPix3Hit(data)
        IN  /\ disk' = disk \o Hit_write(hit)
            /\ wHits' = Append(wHits, hit)
    /\ UNCHANGED << damage, byteorder, wstate, wcls, wContent, cut, rd, rHits >>
    /\ UNCHANGED << readoutVars, run, calc, auxVars >>

\* output_file.close()
CloseOutput ==
    /\ wstate = "header"
    /\ wstate' = "closed"
    /\ UNCHANGED << damage, byteorder, disk, wcls, wContent, wHits, cut, rd, rHits >>
    /\ UNCHANGED << readoutVars, run, calc, auxVars >>

\* The file loses its last byte before it is read (a copy cut short).
CutFile ==
    /\ wstate = "closed"
    /\ rd.state = "idle"
    /\ cut < MaxCut
    /\ damage = "none"
    /\ disk # <<>>
    /\ disk' = SubSeq(disk, 1, Len(disk) - 1)
    /\ cut' = cut + 1
    /\ UNCHANGED << damage, byteorder, wstate, wcls, wContent, wHits, rd, rHits >>
    /\ UNCHANGED << readoutVars, run, calc, auxVars >>

\* A plausible slip: the file is opened without a with statement, so an
\* exception of FileHeader.read leaves it open.
AstroPixBinaryFile_open_no_with(cls, file_path, file, order) ==
    LET h == FileHeader_read(file, 0, order)
    IN  IF ~EndsWith(file_path, EXTENSION)
        THEN Reader("failed", cls, 0, PyNone, ExtensionError, "none", "None", "none")
        ELSE IF h.err # ""
        THEN Reader("failed", cls, h.pos, PyNone, h.err, "open", "file", "none")
        ELSE Reader("open", cls, h.pos, h.content, "", "open", "file", "none")

\* with AstroPixBinaryFile(hit_class).open(file_path) as input_file: the
\* extension is checked, the file opened and the header read, up to the yield.
AstroPixBinaryFile_open(cls, file_path, file, order) ==
    LET h == FileHeader_read(file, 0, order)
    IN  IF ~EndsWith(file_path, EXTENSION)
        THEN Reader("failed", cls, 0, PyNone, ExtensionError, "none", "None", "none")
        ELSE IF h.err # ""
        THEN Reader("failed", cls, h.pos, PyNone, h.err, "closed", "file", "none")
        ELSE Reader("open", cls, h.pos, h.content, "", "open", "file", "none")

OpenInput ==
    /\ wstate = "closed"
    /\ rd.state = "idle"
    /\ \E cls \in HitClasses, file_path \in Paths :
        rd' = AstroPixBinaryFile_open(cls, file_path, disk, byteorder)
    /\ UNCHANGED << damage, byteorder, disk, wstate, wcls, wContent, wHits, cut, rHits >>
    /\ UNCHANGED << readoutVars, run, calc, auxVars >>

\* hit = next(input_file) inside the with block; an exception of the hit
\* constructor leaves the block, which closes the file.
NextHit ==
    /\ rd.state = "open"
    /\ LET r == AstroPixBinaryFile_next(rd.cls, disk, rd.pos)
       IN  /\ rd' = [rd EXCEPT !.pos = r.pos, !.last = r.kind, !.err = r.err,
                               !.state = IF r.kind = "error" THEN "failed" ELSE @,
                               !.handle = IF r.kind = "error" THEN "closed" ELSE @]
           /\ rHits' = IF r.kind = "hit" THEN Append(rHits, r.hit) ELSE rHits
    /\ UNCHANGED << damage, byteorder, disk, wstate, wcls, wContent, wHits, cut >>
    /\ UNCHANGED << readoutVars, run, calc, auxVars >>

\* The end of the with block: self._input_file = None, the file is closed.
CloseInput ==
    /\ rd.state = "open"
    /\ rd' = [rd EXCEPT !.state = "closed", !.handle = "closed", !.input_file = "None"]
    /\ UNCHANGED << damage, byteorder, disk, wstate, wcls, wContent, wHits, cut, rHits >>
    /\ UNCHANGED << readoutVars, run, calc, auxVars >>

\* The bytes a byte of the magic word is replaced with: 'X', and two bytes
\* no UTF-8 text holds at that place (0xFF, and 0xC3 with no byte to follow).
DamageBytes == { 88, 255, 195 }

\* The file found on disk does not start with the magic word: its first or
\* its sixth byte is another one.
DamageMagic ==
    /\ wstate = "closed"
    /\ rd.state = "idle"
    /\ damage = "none"
    /\ cut = 0
    /\ Len(disk) >= Len(MAGIC_WORD)
    /\ \E i \in { 1, Len(MAGIC_WORD) }, b \in DamageBytes :
        disk' = [disk EXCEPT ![i] = b]
    /\ damage' = "byte"
    /\ UNCHANGED << byteorder, wstate, wcls, wContent, wHits, cut, rd, rHits >>
    /\ UNCHANGED << readoutVars, run, calc, auxVars >>

\* The file found on disk is shorter than the magic word.
TruncateHead ==
    /\ wstate = "closed"
    /\ rd.state = "idle"
    /\ damage = "none"
    /\ cut = 0
    /\ \E n \in 0..(Len(MAGIC_WORD) - 1) :
        /\ n < Len(disk)
        /\ disk' = SubSeq(disk, 1, n)
    /\ damage' = "short"
    /\ UNCHANGED << byteorder, wstate, wcls, wContent, wHits, cut, rd, rHits >>
    /\ UNCHANGED << readoutVars, run, calc, auxVars >>

\* The caller raises an exception inside the with block: it is thrown into
\* open() at the yield and leaves the inner with, which closes the file.
CallerError == "Exception of the caller"

CallerRaises ==
    /\ rd.state = "open"
    /\ rd' = [rd EXCEPT !.state = "failed", !.handle = "closed", !.err = CallerError]
    /\ UNCHANGED << damage, byteorder, disk, wstate, wcls, wContent, wHits, cut, rHits >>
    /\ UNCHANGED << readoutVars, run, calc, auxVars >>

NextFile ==
    \/ OpenOutput \/ WriteHeader \/ WriteHit \/ CloseOutput
    \/ CutFile \/ DamageMagic \/ TruncateHead
    \/ OpenInput \/ NextHit \/ CallerRaises \/ CloseInput

SpecFile == Init /\ [][NextFile]_vars

\* ------------------------------------------------------------------------
\* The acquisition run of apx4_read.main
\* ------------------------------------------------------------------------

\* What astro.get_readout() returns in a run: nothing, the sample readout,
\* one frame, pad bytes only, a frame that lost its last byte, a frame with
\* a wrong header after a good one, and a frame with a wrong trailer.
RunBuffers ==
    { <<>>,
      Frame(MockPayload0).bytes \o Frame(MockPayload1).bytes
          \o Repeat(PADDING_BYTE, 2),
      Frame(MockPayload1).bytes \o Repeat(PADDING_BYTE, 1),
      Repeat(PADDING_BYTE, 3),
      SubSeq(Frame(MockPayload0).bytes, 1, HIT_LENGTH - 1),
      Frame(MockPayload1).bytes
          \o << MARKER_BYTE, 0 >> \o MockPayload0 \o HIT_TRAILER,
      HIT_HEADER \o MockPayload0
          \o << 0, MARKER_BYTE, MARKER_BYTE, MARKER_BYTE, MARKER_BYTE, MARKER_BYTE >> }

\* output_file = open(data_file_path, 'wb')
RunOpen ==
    /\ run.state = "idle"
    /\ wstate = "none"
    /\ wstate' = "open"
    /\ disk' = <<>>
    /\ wcls' = "AstroPix4Hit"
    /\ run' = Run("setup", 0, 0)
    /\ UNCHANGED << damage, byteorder, wContent, wHits, cut, rd, rHits >>
    /\ UNCHANGED << readoutVars, calc, auxVars >>

\* header.write(output_file); num_readouts = 0
RunWriteHeader ==
    /\ run.state = "setup"
    /\ \E content \in Contents :
        /\ disk' = disk \o FileHeader_write(content, byteorder)
        /\ wContent' = content
    /\ wstate' = "header"
    /\ run' = Run("loop", 0, 0)
    /\ UNCHANGED << damage, byteorder, wcls, wHits, cut, rd, rHits >>
    /\ UNCHANGED << readoutVars, calc, auxVars >>

\* A plausible slip: the hits are written while the readout is decoded, so
\* those of the frames before a broken one are in the file when the
\* exception leaves main.
RunReadout_streaming ==
    /\ run.state = "loop"
    /\ run.num_readouts < MaxReadouts
    /\ \E readout_data \in RunBuffers :
        IF readout_data = <<>>
        THEN UNCHANGED << rawbuf, readout, run, fileVars >>
        ELSE LET r == AstroPixReadout_init(readout_data, "t1")
                 early == AstroPixReadout_init_salvage(readout_data, "t1").hits
             IN  /\ rawbuf' = readout_data
                 /\ readout' = r
                 /\ IF r.err # ""
                    THEN /\ run' = [run EXCEPT !.state = "crashed"]
                         /\ disk' = disk \o Concat([i \in 1..Len(early) |-> Hit_write(early[i])])
                         /\ wHits' = wHits \o early
                         /\ UNCHANGED << damage, byteorder, wstate, wcls, wContent, cut, rd, rHits >>
                    ELSE /\ run' = [run EXCEPT !.state = "hits", !.k = 0]
                         /\ UNCHANGED fileVars
    /\ UNCHANGED << phase, inPieces, inPad >>
    /\ UNCHANGED << calc, auxVars >>

\* One pass of the loop up to the for statement: readout_data =
\* astro.get_readout(); nothing more when it is empty; else readout =
\* AstroPixReadout(readout_data, time.time()), whose exception leaves main.
RunReadout ==
    /\ run.state = "loop"
    /\ run.num_readouts < MaxReadouts
    /\ \E readout_data \in RunBuffers :
        IF readout_data = <<>>
        THEN UNCHANGED << rawbuf, readout, run >>
        ELSE LET r == AstroPixReadout_init(readout_data, "t1")
             IN  /\ rawbuf' = readout_data
                 /\ readout' = r
                 /\ run' = IF r.err # ""
                           THEN [run EXCEPT !.state = "crashed"]
                           ELSE [run EXCEPT !.state = "hits", !.k = 0]
    /\ UNCHANGED << phase, inPieces, inPad >>
    /\ UNCHANGED << fileVars, calc, auxVars >>

\* A plausible slip: the hits of a readout are written from the last one.
RunWriteHit_from_last ==
    /\ run.state = "hits"
    /\ run.k < Len(readout.hits)
    /\ LET hit == readout.hits[Len(readout.hits) - run.k]
       IN  /\ disk' = disk \o Hit_write(hit)
           /\ wHits' = Append(wHits, hit)
    /\ run' = [run EXCEPT !.k = @ + 1]
    /\ UNCHANGED << damage, byteorder, wstate, wcls, wContent, cut, rd, rHits >>
    /\ UNCHANGED << readoutVars, calc, auxVars >>

\* for hit in readout.hits: hit.write(output_file)
RunWriteHit ==
    /\ run.state = "hits"
    /\ run.k < Len(readout.hits)
    /\ LET hit == readout.hits[run.k + 1]
       IN  /\ disk' = disk \o Hit_write(hit)
           /\ wHits' = Append(wHits, hit)
    /\ run' = [run EXCEPT !.k = @ + 1]
    /\ UNCHANGED << damage, byteorder, wstate, wcls, wContent, cut, rd, rHits >>
    /\ UNCHANGED << readoutVars, calc, auxVars >>

\* The end of the for statement: num_readouts += 1
RunEndReadout ==
    /\ run.state = "hits"
    /\ run.k = Len(readout.hits)
    /\ run' = [run EXCEPT !.state = "loop", !.num_readouts = @ + 1, !.k = 0]
    /\ UNCHANGED << fileVars, readoutVars, calc, auxVars >>

\* A stop condition holds at the top of the loop: break, then
\* output_file.close()
RunStop ==
    /\ run.state = "loop"
    /\ wstate' = "closed"
    /\ run' = [run EXCEPT !.state = "stopped"]
    /\ UNCHANGED << damage, byteorder, disk, wcls, wContent, wHits, cut, rd, rHits >>
    /\ UNCHANGED << readoutVars, calc, auxVars >>

\* A keyboard interrupt anywhere in the loop: except KeyboardInterrupt, then
\* output_file.close()
RunInterrupt ==
    /\ run.state \in { "loop", "hits" }
    /\ wstate' = "closed"
    /\ run' = [run EXCEPT !.state = "interrupted"]
    /\ UNCHANGED << damage, byteorder, disk, wcls, wContent, wHits, cut, rd, rHits >>
    /\ UNCHANGED << readoutVars, calc, auxVars >>

NextRun ==
    \/ RunOpen \/ RunWriteHeader \/ RunReadout \/ RunWriteHit
    \/ RunEndReadout \/ RunStop \/ RunInterrupt

SpecRun == Init /\ [][NextRun]_vars

\* ------------------------------------------------------------------------
\* Calls of the hit codec by themselves
\* ------------------------------------------------------------------------

\* The byte sequences bit patterns are built from: none, the two bytes of
\* tests/test_fmt.py, one byte, and three bytes of a hit.
BitInputs == { <<>>, << 188, 255 >>, << 188 >>, << 1, 128 >>, << 86, 232, 13 >> }

\* The buffers hit constructors are given: the first n bytes of two byte
\* streams, n from 0 to SIZE + MaxExtra.
HitStream(j, n) == [i \in 1..n |-> (37 * i + 101 * j) % 256]

\* The w bits of v, the most significant first.
IntBits(v, w) == [i \in 1..w |-> (v \div (2 ^ (w - i))) % 2]

\* The clock counts the timestamps of AstroPix4 hits stand for.
ClockInputs == { 0, 1, 49581, 52836, 65536, 2 ^ 17 - 1 }

\* The Gray code of n: n ^ (n >> 1), as the chip counts.
GrayCode(n) == Xor(n, ShiftRight1(n))

\* The 8 bytes of an AstroPix4 hit whose two timestamps stand for the clock
\* counts t1 and t2, the other fields being fixed.
ClockHit(t1, t2) ==
    LET g1 == GrayCode(t1)
        g2 == GrayCode(t2)
        bits == IntBits(7, 5) \o IntBits(0, 3) \o IntBits(5, 5) \o IntBits(3, 5)
                \o IntBits(0, 1) \o IntBits(g1 \div 8, 14) \o IntBits(g1 % 8, 3)
                \o IntBits(9, 5)
                \o IntBits(1, 1) \o IntBits(g2 \div 8, 14) \o IntBits(g2 % 8, 3)
                \o IntBits(31, 5)
    IN  [k \in 1..AstroPix4Hit_SIZE |-> BitsValue(SubSeq(bits, 8 * (k - 1) + 1, 8 * k))]

HitInputs(cls) ==
    { HitStream(j, n) : j \in { 1, 2 }, n \in 0..(SizeOf(cls) + MaxExtra) }
    \cup (IF cls = "AstroPix4Hit"
          THEN { ClockHit(t1, t2) : t1, t2 \in ClockInputs }
          ELSE {})

\* The integers gray_to_decimal is given: values of the 17-bit counter, its
\* largest value and two with alternating bits among them, and three
\* integers above it.
GrayInputs ==
    { lo + hi * 2 ^ (17 - GrayHiBits) :
          lo \in 0..(2 ^ GrayLoBits - 1), hi \in 0..(2 ^ GrayHiBits - 1) }
    \cup { AstroPix4Hit_CLOCK_ROLLOVER - 1, 87381, 43690 }
    \cup { AstroPix4Hit_CLOCK_ROLLOVER, AstroPix4Hit_CLOCK_ROLLOVER + 5, 2 ^ 20 + 3 }

\* BitPattern(data)[start:stop]
CallGetitem ==
    /\ calc.op = "none"
    /\ \E data \in BitInputs :
        \E start \in 0..(8 * Len(data) + MaxOver), stop \in 0..(8 * Len(data) + MaxOver) :
            LET r == BitPattern_getitem(BitPattern(data), start, stop)
            IN  calc' = Calc("getitem", data, start, stop, "", 0, r.err, r.val, NoHit)
    /\ UNCHANGED << readoutVars, fileVars, run, auxVars >>

\* hit_class(data)
CallHit ==
    /\ calc.op = "none"
    /\ \E cls \in HitClasses :
        \E data \in HitInputs(cls) :
            LET hit == NewHit(cls, data)
            IN  calc' = Calc("hit", data, 0, 0, cls, 0, hit.err, 0, hit)
    /\ UNCHANGED << readoutVars, fileVars, run, auxVars >>

\* AstroPixHitBase.gray_to_decimal(n)
CallGray ==
    /\ calc.op = "none"
    /\ \E n \in GrayInputs :
        calc' = Calc("gray", <<>>, 0, 0, "", n, "", gray_to_decimal(n), NoHit)
    /\ UNCHANGED << readoutVars, fileVars, run, auxVars >>

\* The coarse counters _compose_timestamp is given: values of the 14-bit
\* counter, the one of the sample readout and the largest among them.
CoarseInputs ==
    { lo + hi * 2 ^ (14 - CoarseHiBits) :
          lo \in 0..(2 ^ CoarseLoBits - 1), hi \in 0..(2 ^ CoarseHiBits - 1) }
    \cup { 5167, 2 ^ 14 - 1 }

\* AstroPix4Hit._compose_timestamp(ts_coarse, ts_fine)
CallCompose ==
    /\ calc.op = "none"
    /\ \E ts_coarse \in CoarseInputs, ts_fine \in 0..7 :
        calc' = Calc("compose", << ts_coarse, ts_fine >>, 0, 0, "", 0, "",
                     compose_timestamp(ts_coarse, ts_fine), NoHit)
    /\ UNCHANGED << readoutVars, fileVars, run, auxVars >>

\* hit_class(data) or hit_class(data, timestamp)
HitWith(cls, data, timestamp) ==
    IF cls = "AstroPix4Hit" THEN AstroPix4Hit(data, timestamp) ELSE AstroPix3Hit(data)

\* The raw bytes the two hits of a comparison are built from: two records of
\* the class and one that is a byte longer.
EqInputs(cls) ==
    { HitStream(1, SizeOf(cls)), HitStream(2, SizeOf(cls)),
      HitStream(1, SizeOf(cls) + 1) }

\* Two hits are built, the first is written to a file and the two are
\* compared: hit == other. data holds the bytes the first was built from,
\* hit and other the two objects after the calls, val the result (1: True).
CallEq ==
    /\ calc.op = "none"
    /\ \E cls \in HitClasses :
        \E a \in EqInputs(cls), b \in EqInputs(cls) :
            \E ta \in Timestamps, tb \in Timestamps :
                LET hit == HitWith(cls, a, ta)
                    other == HitWith(cls, b, tb)
                    written == Hit_write(hit)
                    equal == IF Hit_eq(hit, other) THEN 1 ELSE 0
                IN  calc' = [Calc("eq", a, 0, Len(written), cls, 0, "", equal, hit)
                                EXCEPT !.other = other]
    /\ UNCHANGED << readoutVars, fileVars, run, auxVars >>

\* The call is over.
CallReturn ==
    /\ calc.op # "none"
    /\ calc' = NoCalc
    /\ UNCHANGED << readoutVars, fileVars, run, auxVars >>

NextCodec ==
    \/ CallGetitem \/ CallHit \/ CallGray \/ CallCompose \/ CallEq
    \/ CallReturn

SpecCodec == Init /\ [][NextCodec]_vars

\* ------------------------------------------------------------------------
\* Text output: AstroPix4Hit.text_header, to_csv, apxdf_to_csv, and
\* playback_file of apx4_read
\* ------------------------------------------------------------------------

\* The characters of a field name (code points).
NameText(name) ==
    CASE name = "chip_id" -> << 99, 104, 105, 112, 95, 105, 100 >>
      [] name = "payload" -> << 112, 97, 121, 108, 111, 97, 100 >>
      [] name = "row" -> << 114, 111, 119 >>
      [] name = "column" -> << 99, 111, 108, 117, 109, 110 >>
      [] name = "ts_neg1" -> << 116, 115, 95, 110, 101, 103, 49 >>
      [] name = "ts_coarse1" -> << 116, 115, 95, 99, 111, 97, 114, 115, 101, 49 >>
      [] name = "ts_fine1" -> << 116, 115, 95, 102, 105, 110, 101, 49 >>
      [] name = "ts_tdc1" -> << 116, 115, 95, 116, 100, 99, 49 >>
      [] name = "ts_neg2" -> << 116, 115, 95, 110, 101, 103, 50 >>
      [] name = "ts_coarse2" -> << 116, 115, 95, 99, 111, 97, 114, 115, 101, 50 >>
      [] name = "ts_fine2" -> << 116, 115, 95, 102, 105, 110, 101, 50 >>
      [] name = "ts_tdc2" -> << 116, 115, 95, 116, 100, 99, 50 >>
      [] name = "ts_dec1" -> << 116, 115, 95, 100, 101, 99, 49 >>
      [] name = "ts_dec2" -> << 116, 115, 95, 100, 101, 99, 50 >>
      [] name = "tot_us" -> << 116, 111, 116, 95, 117, 115 >>
      [] name = "timestamp" -> << 116, 105, 109, 101, 115, 116, 97, 109, 112 >>
      [] name = "reserved1" -> << 114, 101, 115, 101, 114, 118, 101, 100, 49 >>
      [] name = "location" -> << 108, 111, 99, 97, 116, 105, 111, 110 >>
      [] name = "reserved2" -> << 114, 101, 115, 101, 114, 118, 101, 100, 50 >>
      [] name = "tot_msb" -> << 116, 111, 116, 95, 109, 115, 98 >>
      [] name = "tot_lsb" -> << 116, 111, 116, 95, 108, 115, 98 >>
      [] name = "tot" -> << 116, 111, 116 >>

\* AstroPix3Hit._FIELD_NAMES = tuple(FIELD_DICT.keys()) + ('tot', 'tot_us')
AstroPix3Hit_FIELD_NAMES ==
    [k \in 1..Len(AstroPix3Hit_FIELD_DICT) |-> AstroPix3Hit_FIELD_DICT[k].name]
    \o << "tot", "tot_us" >>

\* AstroPix4Hit._FIELD_NAMES = tuple(FIELD_DICT.keys()) +
\* ('ts_dec1', 'ts_dec2', 'tot_us', 'timestamp')
AstroPix4Hit_FIELD_NAMES ==
    [k \in 1..Len(AstroPix4Hit_FIELD_DICT) |-> AstroPix4Hit_FIELD_DICT[k].name]
    \o << "ts_dec1", "ts_dec2", "tot_us", "timestamp" >>

\* separator.join(parts)
RECURSIVE StrJoin(_, _)
StrJoin(separator, parts) ==
    IF parts = <<>> THEN <<>>
    ELSE IF Len(parts) = 1 THEN parts[1]
    ELSE parts[1] \o separator \o StrJoin(separator, Tail(parts))

\* str(x) of the float x = num / den for den = 20 and 0 <= num < 2^18: the
\* integer part, a point, and the one or two decimals of (num % 20) / 20.
FloatStr(q) ==
    LET hundredths == (q.num % q.den) * (100 \div q.den)
        decimals == IF hundredths % 10 = 0
                    THEN << 48 + (hundredths \div 10) >>
                    ELSE << 48 + (hundredths \div 10), 48 + (hundredths % 10) >>
    IN  IntStr(q.num \div q.den) \o << 46 >> \o decimals

\* '%s' % getattr(hit, attr) for an AstroPix4Hit: the decoded fields and the
\* decoded timestamps are ints, tot_us is a float, timestamp is None or the
\* time given by the host.
AstroPix4Hit_format_attribute(hit, attr) ==
    IF attr = "timestamp"
    THEN (IF hit.timestamp = "None" THEN << 78, 111, 110, 101 >> ELSE << 116, 49 >>)
    ELSE IF attr = "tot_us" THEN FloatStr(hit.d.tot_us)
    ELSE IF attr \in { "ts_dec1", "ts_dec2" } THEN IntStr(hit.d[attr])
    ELSE IntStr(hit.f[attr])

\* AstroPix4Hit.text_header(fields): ','.join(fields)
AstroPix4Hit_text_header(fields) ==
    StrJoin(<< 44 >>, [k \in 1..Len(fields) |-> NameText(fields[k])])

\* AstroPix4Hit.to_csv(fields): self._text(fields, fmts=None, separator=',')
AstroPix4Hit_to_csv(hit, fields) ==
    StrJoin(<< 44 >>,
            [k \in 1..Len(fields) |-> AstroPix4Hit_format_attribute(hit, fields[k])])
    \o << 10 >>

\* file_path.replace(old, new)
RECURSIVE StrReplace(_, _, _)
StrReplace(str, old, new) ==
    IF Len(str) < Len(old) THEN str
    ELSE IF SubSeq(str, 1, Len(old)) = old
    THEN new \o StrReplace(SubSeq(str, Len(old) + 1, Len(str)), old, new)
    ELSE << str[1] >> \o StrReplace(Tail(str), old, new)

\* The default extension of the csv file: '.csv'
CSV_EXTENSION == << 46, 99, 115, 118 >>

ToCsvError == "AttributeError: type object 'AstroPix3Hit' has no attribute 'to_csv'"

\* apxdf_to_csv(file_path, hit_class) up to the for statement: the header
\* line is that of AstroPix4Hit; hit_class.to_csv is looked up before
\* anything is opened, and only AstroPix4Hit has one; the input file is
\* opened before the output file is created; the header line is written.
\* input_file is what AstroPixBinaryFile(hit_class).open(file_path) gives.
apxdf_to_csv(file_path, hit_class, input_file) ==
    LET header == << 35, 32 >> \o AstroPix4Hit_text_header(AstroPix4Hit_FIELD_NAMES)
                  \o << 10 >>
        output_file_path == StrReplace(file_path, EXTENSION, CSV_EXTENSION)
    IN  IF hit_class # "AstroPix4Hit"
        THEN Tool("csv", "done", hit_class, file_path, 0, ToCsvError, 0, 0,
                  <<>>, FALSE, <<>>, <<>>)
        ELSE IF input_file.err # ""
        THEN Tool("csv", "done", hit_class, file_path, 0, input_file.err, 0, 0,
                  output_file_path, FALSE, <<>>, <<>>)
        ELSE Tool("csv", "loop", hit_class, file_path, 0, "", input_file.pos, 0,
                  output_file_path, TRUE, header, <<>>)

\* One print of playback_file: "start", "header" (with the header content),
\* "hit" (with the hit), "dots" or "found" (with the number printed).
Printed(kind, n, hit, content) == [kind |-> kind, n |-> n, hit |-> hit, content |-> content]

UnboundError == "UnboundLocalError: local variable 'i' referenced before assignment"

IntEqError == "AttributeError: 'int' object has no attribute '_data'"

\* playback_file(file_path, num_hits) up to the for statement: the file is
\* opened and two lines are printed. input_file is what
\* AstroPixBinaryFile(AstroPix4Hit).open(file_path) gives.
playback_file(file_path, shown, input_file) ==
    IF input_file.err # ""
    THEN Tool("playback", "done", "AstroPix4Hit", file_path, shown, input_file.err,
              0, 0, <<>>, FALSE, <<>>, <<>>)
    ELSE Tool("playback", "loop", "AstroPix4Hit", file_path, shown, "",
              input_file.pos, 0, <<>>, FALSE, <<>>,
              << Printed("start", 0, NoHit, PyNone),
                 Printed("header", 0, NoHit, input_file.header) >>)

\* The values of num_hits playback_file is called with.
ShownInputs == 0..MaxFileHits

\* apxdf_to_csv(file_path, hit_class) on the file written
CallCsv ==
    /\ wstate = "closed"
    /\ tool.op = "none"
    /\ \E hit_class \in HitClasses, file_path \in Paths :
        \E input_file \in { AstroPixBinaryFile_open(hit_class, file_path, disk,
                                                    byteorder) } :
            tool' = apxdf_to_csv(file_path, hit_class, input_file)
    /\ UNCHANGED << readoutVars, fileVars, run, calc, scan, spi >>

\* One pass of `for hit in input_file: output_file.write(converter(hit))`,
\* or its end; an exception of the hit constructor leaves the function.
ConvertLoop ==
    /\ tool.op = "csv"
    /\ tool.pc = "loop"
    /\ \E r \in { AstroPixBinaryFile_next(tool.cls, disk, tool.pos) } :
           tool' =
             IF r.kind = "stop" THEN [tool EXCEPT !.pc = "done", !.pos = r.pos]
             ELSE IF r.kind = "error"
             THEN [tool EXCEPT !.pc = "done", !.pos = r.pos, !.err = r.err]
             ELSE [tool EXCEPT !.pos = r.pos, !.i = @ + 1,
                               !.text = @ \o AstroPix4Hit_to_csv(r.hit,
                                                                 AstroPix4Hit_FIELD_NAMES)]
    /\ UNCHANGED << readoutVars, fileVars, run, calc, scan, spi >>

\* playback_file(file_path, num_hits) on the file written
CallPlayback ==
    /\ wstate = "closed"
    /\ tool.op = "none"
    /\ \E file_path \in Paths :
        \E input_file \in { AstroPixBinaryFile_open("AstroPix4Hit", file_path, disk,
                                                    byteorder) } :
            \E shown \in ShownInputs :
                tool' = playback_file(file_path, shown, input_file)
    /\ UNCHANGED << readoutVars, fileVars, run, calc, scan, spi >>

\* One pass of `for i, hit in enumerate(input_file)`, or its end with the
\* print after the loop; tool.i is the index of the next hit. With no hit
\* at all i is never bound; hit == num_hits calls AstroPixHitBase.__eq__
\* with an int, whose _data does not exist.
PlaybackLoop ==
    /\ tool.op = "playback"
    /\ tool.pc = "loop"
    /\ \E r \in { AstroPixBinaryFile_next("AstroPix4Hit", disk, tool.pos) } :
           tool' =
             IF r.kind = "stop"
             THEN (IF tool.i = 0
                   THEN [tool EXCEPT !.pc = "done", !.pos = r.pos, !.err = UnboundError]
                   ELSE [tool EXCEPT !.pc = "done", !.pos = r.pos,
                             !.stdout = Append(@, Printed("found", tool.i - 1, NoHit,
                                                          PyNone))])
             ELSE IF r.kind = "error"
             THEN [tool EXCEPT !.pc = "done", !.pos = r.pos, !.err = r.err]
             ELSE IF tool.i < tool.num_hits
             THEN [tool EXCEPT !.pos = r.pos, !.i = @ + 1,
                               !.stdout = Append(@, Printed("hit", tool.i, r.hit, PyNone))]
             ELSE [tool EXCEPT !.pc = "done", !.pos = r.pos, !.err = IntEqError]
    /\ UNCHANGED << readoutVars, fileVars, run, calc, scan, spi >>

\* The call is over.
ToolReturn ==
    /\ tool.op # "none"
    /\ tool.pc = "done"
    /\ tool' = NoTool
    /\ UNCHANGED << readoutVars, fileVars, run, calc, scan, spi >>

NextTools ==
    \/ OpenOutput \/ WriteHeader \/ WriteHit \/ CloseOutput
    \/ CallCsv \/ ConvertLoop \/ CallPlayback \/ PlaybackLoop \/ ToolReturn

SpecTools == Init /\ [][NextTools]_vars

\* ------------------------------------------------------------------------
\* The threshold search of thresholdScan_binsearch
\* ------------------------------------------------------------------------

\* vth_start = 1.
VTH_START == 1

\* vth_stop = 400.
VTH_STOP == 400

\* np.round(twice / 2) for an integer twice: a half is rounded to the even
\* neighbour.
np_round_half(twice) ==
    IF twice % 2 = 0 THEN twice \div 2
    ELSE LET below == (twice - 1) \div 2
         IN  IF below % 2 = 0 THEN below ELSE below + 1

\* A plausible slip: the search stops when the two bounds meet.
ThresholdFound_when_equal(vth_start, vth_stop) == vth_stop - vth_start <= 0

\* if(vth_stop - vth_start <= 1.): break
ThresholdFound(vth_start, vth_stop) == vth_stop - vth_start <= 1

\* The hit counts a measurement returns: none, the limit, one more, many.
CountInputs == { 0, 10, 11, 500 }

\* for r in range(...): vth_start = 1.; vth_stop = 400.
ScanPixel ==
    /\ scan.pc = "idle"
    /\ scan.pixel < MaxPixels
    /\ scan' = Scan("search", scan.pixel, VTH_START, VTH_STOP, 0, 0)
    /\ UNCHANGED << readoutVars, fileVars, run, calc, tool, spi >>

\* One pass of the while loop: the probe value, the measurement, the bound
\* that moves, and the break.
ScanMeasure ==
    /\ scan.pc = "search"
    /\ scan.n < MaxMeasurements
    /\ \E cnt_hits \in CountInputs :
        LET vth_val == np_round_half(scan.vth_start + scan.vth_stop)
            vth_start == IF cnt_hits > 10 THEN vth_val ELSE scan.vth_start
            vth_stop == IF cnt_hits > 10 THEN scan.vth_stop ELSE vth_val
        IN  scan' = IF ThresholdFound(vth_start, vth_stop)
                    THEN Scan("idle", scan.pixel + 1, vth_start, vth_stop, vth_val,
                              scan.n + 1)
                    ELSE Scan("search", scan.pixel, vth_start, vth_stop, vth_val,
                              scan.n + 1)
    /\ UNCHANGED << readoutVars, fileVars, run, calc, tool, spi >>

NextScan == ScanPixel \/ ScanMeasure

\* A measurement that was started returns, so the loop goes on.
SpecScan == Init /\ [][NextScan]_vars /\ WF_vars(ScanMeasure)

\* ------------------------------------------------------------------------
\* Spi.write_spi
\* ------------------------------------------------------------------------

\* compare_empty = 2: result & compare_empty
WrFifoEmpty(result) == (result \div 2) % 2 = 1

\* compare_full = 4: result & compare_full
WrFifoFull(result) == (result \div 4) % 2 = 1

\* The values read from the SPI_CONFIG register: the empty and full flags of
\* the write FIFO in every combination, and another flag alone.
StatusInputs == { 0, 2, 4, 6, 16 }

\* The data vectors: 1, 2, ..., n for n up to MaxSpiLen.
SpiData == { [k \in 1..n |-> k] : n \in 0..MaxSpiLen }

\* The values of buffersize: the default, and two that let the counter run
\* out within the data.
SpiBufferSizes == { 1023, 3, 4 }

\* write_spi(data, buffersize) up to the first loop: waiting = True, i = 0,
\* writebuffer = bytearray(), counter = buffersize / 3
SpiWrite ==
    /\ spi.pc = "idle"
    /\ \E data \in SpiData, buffersize \in SpiBufferSizes :
        spi' = SpiCall("waiting", data, buffersize, 0, <<>>, buffersize, <<>>)
    /\ UNCHANGED << readoutVars, fileVars, run, calc, tool, scan >>

\* One pass of `while waiting`: the status is read, and the loop ends when
\* the write FIFO is empty.
SpiWaitEmpty ==
    /\ spi.pc = "waiting"
    /\ \E result \in StatusInputs :
        spi' = IF WrFifoEmpty(result) THEN [spi EXCEPT !.pc = "sending"] ELSE spi
    /\ UNCHANGED << readoutVars, fileVars, run, calc, tool, scan >>

\* One pass of `while i < len(data)` with counter > 0: the byte goes to the
\* write buffer, which is sent and emptied when i % 5 = 4.
SpiSendByte ==
    /\ spi.pc = "sending"
    /\ spi.i < Len(spi.data)
    /\ spi.counter > 0
    /\ LET writebuffer == Append(spi.writebuffer, spi.data[spi.i + 1])
           i == spi.i + 1
       IN  spi' = IF i % 5 = 4
                  THEN [spi EXCEPT !.i = i, !.counter = @ - 3, !.writebuffer = <<>>,
                                   !.sent = Append(@, writebuffer)]
                  ELSE [spi EXCEPT !.i = i, !.counter = @ - 3,
                                   !.writebuffer = writebuffer]
    /\ UNCHANGED << readoutVars, fileVars, run, calc, tool, scan >>

\* One pass of `while i < len(data)` with counter <= 0: the status is read;
\* the counter is set again when the write FIFO is empty, to 1 when it is
\* not full.
SpiPoll ==
    /\ spi.pc = "sending"
    /\ spi.i < Len(spi.data)
    /\ spi.counter <= 0
    /\ \E result \in StatusInputs :
        spi' = IF WrFifoEmpty(result) THEN [spi EXCEPT !.counter = spi.buffersize]
               ELSE IF ~WrFifoFull(result) THEN [spi EXCEPT !.counter = 3]
               ELSE spi
    /\ UNCHANGED << readoutVars, fileVars, run, calc, tool, scan >>

\* The end of the second loop: write_spi returns.
SpiReturn ==
    /\ spi.pc = "sending"
    /\ spi.i >= Len(spi.data)
    /\ spi' = [spi EXCEPT !.pc = "returned"]
    /\ UNCHANGED << readoutVars, fileVars, run, calc, tool, scan >>

\* The caller goes on; the next call starts afresh.
SpiNext ==
    /\ spi.pc = "returned"
    /\ spi' = SpiCall("idle", <<>>, 0, 0, <<>>, 0, <<>>)
    /\ UNCHANGED << readoutVars, fileVars, run, calc, tool, scan >>

NextSpi ==
    \/ SpiWrite \/ SpiWaitEmpty \/ SpiSendByte \/ SpiPoll \/ SpiReturn \/ SpiNext

SpecSpi == Init /\ [][NextSpi]_vars

\* ------------------------------------------------------------------------
\* Properties of the readout framer
\* ------------------------------------------------------------------------

\* The length of buf once its trailing run of 0xFF bytes is removed: the
\* place of its last byte that is not 0xFF.
StrippedLen(buf) ==
    LET keep == { i \in 1..Len(buf) : buf[i] # 255 }
    IN  IF keep = {} THEN 0 ELSE CHOOSE i \in keep : \A j \in keep : j <= i

\* The i-th 16-byte chunk of buf, i = 1, 2, ...
Chunk(buf, i) == [k \in 1..16 |-> buf[16 * (i - 1) + k]]

HeaderOk(c) == c[1] = 188 /\ c[2] = 188

TrailerOk(c) == \A k \in 11..16 : c[k] = 188

\* The whole 16-byte chunks of the stripped buffer that are not BC BC, 8
\* bytes, BC x 6.
BadChunks(buf) ==
    { i \in 1..(StrippedLen(buf) \div 16) :
        ~(HeaderOk(Chunk(buf, i)) /\ TrailerOk(Chunk(buf, i))) }

FirstBad(buf) == CHOOSE i \in BadChunks(buf) : \A j \in BadChunks(buf) : i <= j

\* r is b with its 8 bits in the opposite order (bit 7 <-> 0, 6 <-> 1, ...).
BitMirror(r, b) ==
    \A k \in 0..7 : (r \div (2 ^ k)) % 2 = (b \div (2 ^ (7 - k))) % 2

\* C3. Framing length: a buffer whose length without its trailing 0xFF bytes
\* is not a multiple of 16 always fails with the framing-length error, and
\* no hit is decoded.
C3_FramingLength ==
    (phase = "decoded" /\ StrippedLen(rawbuf) % 16 # 0)
        => /\ readout.err = LengthError
           /\ ~readout.has_hits
           /\ readout.hits = <<>>
           /\ readout.ndecoded = 0

\* A whole well-formed frame and one stray byte: 17 bytes.
C3_Witness ==
    /\ phase = "decoded"
    /\ StrippedLen(rawbuf) = 17
    /\ BadChunks(rawbuf) = {}
    /\ readout.err = LengthError

\* C4. No best-effort decoding: every hit of a hit list comes from a chunk
\* with header BC BC and trailer BC x 6; a chunk with another header or
\* trailer makes the construction fail with a framing error, that chunk is
\* never decoded, and where the framing length is right the error is the
\* wrong-header error if the first such chunk has a wrong header and the
\* wrong-trailer error otherwise.
C4_NoBestEffort ==
    phase = "decoded" =>
        /\ readout.has_hits =>
               \A i \in 1..Len(readout.hits) :
                   HeaderOk(Chunk(rawbuf, i)) /\ TrailerOk(Chunk(rawbuf, i))
        /\ BadChunks(rawbuf) # {} =>
               /\ readout.err \in { LengthError, HeaderError, TrailerError }
               /\ ~readout.has_hits
               /\ readout.hits = <<>>
               /\ readout.ndecoded < FirstBad(rawbuf)
               /\ StrippedLen(rawbuf) % 16 = 0 =>
                      /\ readout.ndecoded = FirstBad(rawbuf) - 1
                      /\ readout.err =
                             IF HeaderOk(Chunk(rawbuf, FirstBad(rawbuf)))
                             THEN TrailerError ELSE HeaderError

\* A good frame, then a frame whose trailer is wrong.
C4_Witness ==
    /\ phase = "decoded"
    /\ StrippedLen(rawbuf) = 32
    /\ BadChunks(rawbuf) = {2}
    /\ HeaderOk(Chunk(rawbuf, 2))
    /\ readout.err = TrailerError

\* C5. All or nothing: when a frame of a readout fails its header or trailer
\* check, no hit list is exposed, also when earlier frames of the buffer
\* were valid and decoded.
C5_AllOrNothing ==
    (phase = "decoded" /\ StrippedLen(rawbuf) % 16 = 0 /\ BadChunks(rawbuf) # {})
        => /\ readout.err # ""
           /\ ~readout.has_hits
           /\ readout.hits = <<>>

\* The first frame was decoded, the second one is broken.
C5_Witness ==
    /\ phase = "decoded"
    /\ readout.err \in { HeaderError, TrailerError }
    /\ readout.ndecoded = 1
    /\ ~readout.has_hits

\* C6. A buffer that decodes has exactly (stripped length / 16) hits, which
\* is num_hits(), and the raw bytes of the i-th hit are the bytes
\* [16i+2, 16i+10) of the buffer, each with its bit order reversed, the
\* order of the 8 bytes kept.
C6_HitsInBufferOrder ==
    (phase = "decoded" /\ readout.err = "") =>
        /\ readout.has_hits
        /\ Len(readout.hits) = StrippedLen(rawbuf) \div 16
        /\ num_hits(readout) = Len(readout.hits)
        /\ \A i \in 1..Len(readout.hits) :
               /\ readout.hits[i].err = ""
               /\ Len(readout.hits[i].data) = 8
               /\ \A j \in 1..8 :
                      BitMirror(readout.hits[i].data[j],
                                rawbuf[16 * (i - 1) + 2 + j])

\* Two frames with different payloads were decoded.
C6_Witness ==
    /\ phase = "decoded"
    /\ readout.err = ""
    /\ Len(readout.hits) = 2
    /\ readout.hits[1].data # readout.hits[2].data

\* C7. A buffer of 0xFF pad bytes only, of any length, the empty one
\* included, decodes to a readout with zero hits and no error.
C7_AllPadding ==
    (phase = "decoded" /\ \A i \in 1..Len(rawbuf) : rawbuf[i] = 255)
        => /\ readout.err = ""
           /\ readout.has_hits
           /\ readout.hits = <<>>
           /\ num_hits(readout) = 0

C7_Witness ==
    /\ phase = "decoded"
    /\ Len(rawbuf) >= 2
    /\ \A i \in 1..Len(rawbuf) : rawbuf[i] = 255
    /\ readout.has_hits
    /\ readout.hits = <<>>

\* C8. Padding never changes the result: k well-formed frames followed by p
\* pad bytes decode, for every p, to the k hits of the frames; only the 0xFF
\* run at the end of the buffer is removed, never a byte of a frame.
C8_PaddingInvariant ==
    (phase = "decoded" /\ \A i \in 1..Len(inPieces) : inPieces[i].kind = "frame")
        => /\ readout.err = ""
           /\ readout.has_hits
           /\ Len(readout.data) = Len(rawbuf) - inPad
           /\ readout.data = SubSeq(rawbuf, 1, Len(rawbuf) - inPad)
           /\ Len(readout.hits) = Len(inPieces)
           /\ \A i \in 1..Len(inPieces) :
                  readout.hits[i] =
                      AstroPix4Hit(reverse_bit_order(SubSeq(inPieces[i].bytes, 3, 10)),
                                   readout.timestamp)

\* Two frames, the second with a payload of 0xFF bytes, then two pad bytes.
C8_Witness ==
    /\ phase = "decoded"
    /\ Len(inPieces) = 2
    /\ \A i \in 1..2 : inPieces[i].kind = "frame"
    /\ \A j \in 3..10 : inPieces[2].bytes[j] = 255
    /\ inPad = 2
    /\ Len(readout.hits) = 2

\* bcbce08056e80da85403bcbcbcbcbcbc bcbce080d26f04ca3005bcbcbcbcbcbc
MockReadout ==
    << 188, 188, 224, 128, 86, 232, 13, 168, 84, 3, 188, 188, 188, 188, 188, 188,
       188, 188, 224, 128, 210, 111, 4, 202, 48, 5, 188, 188, 188, 188, 188, 188 >>

IsMockReadout(buf) ==
    /\ Len(buf) >= 32
    /\ SubSeq(buf, 1, 32) = MockReadout
    /\ \A i \in 33..Len(buf) : buf[i] = 255

\* C9. The 2-hit mock readout decodes to exactly 2 hits: hit 0 with
\* (chip_id, payload, row, column) = (0, 7, 0, 5), ts_dec1 = 49581,
\* ts_dec2 = 52836 (3255 cycles) and tot_us = 162.75; hit 1 with
\* (0, 7, 0, 5), ts_dec1 = 54716, ts_dec2 = 61369 (6653 cycles) and
\* tot_us = 332.65.
C9_MockReadout ==
    (phase = "decoded" /\ IsMockReadout(rawbuf)) =>
        /\ readout.err = ""
        /\ Len(readout.hits) = 2
        /\ LET hit0 == readout.hits[1]
               hit1 == readout.hits[2]
           IN  /\ << hit0.f["chip_id"], hit0.f["payload"],
                     hit0.f["row"], hit0.f["column"] >> = << 0, 7, 0, 5 >>
               /\ hit0.d["ts_dec1"] = 49581
               /\ hit0.d["ts_dec2"] = 52836
               /\ hit0.d["tot_us"].num = 3255
               /\ hit0.d["tot_us"].den = 20
               /\ QuotientIs(hit0.d["tot_us"], 162, 75)
               /\ << hit1.f["chip_id"], hit1.f["payload"],
                     hit1.f["row"], hit1.f["column"] >> = << 0, 7, 0, 5 >>
               /\ hit1.d["ts_dec1"] = 54716
               /\ hit1.d["ts_dec2"] = 61369
               /\ hit1.d["tot_us"].num = 6653
               /\ hit1.d["tot_us"].den = 20
               /\ QuotientIs(hit1.d["tot_us"], 332, 65)

C9_Witness ==
    /\ phase = "decoded"
    /\ IsMockReadout(rawbuf)
    /\ Len(rawbuf) > 32
    /\ readout.has_hits


\* ------------------------------------------------------------------------
\* Properties of the container file
\* ------------------------------------------------------------------------

\* The content comes back unchanged from json.loads(json.dumps(content)).
Survives(content) ==
    LET r == JsonLoads(JsonDumps(content))
    IN  r.err = "" /\ r.val = content

\* The number of bytes FileHeader.write puts into the file.
HeaderBytes(content) ==
    Len(MAGIC_WORD) + HEADER_LENGTH_SIZE + Len(Utf8Encode(JsonDumps(content)))

\* The file as written was opened for reading: the path passed the
\* extension check, the file lost no byte and no byte of it was replaced,
\* and the caller raised nothing of its own inside the with block.
OpenedIntact ==
    /\ rd.handle # "none"
    /\ cut = 0
    /\ damage = "none"
    /\ rd.err # CallerError

\* C1: a file made of a header whose content survives a JSON encode/decode
\* cycle and of N AstroPix4 hits, read back with
\* AstroPixBinaryFile(AstroPix4Hit).open, gives a header equal by content to
\* the one written, then the hits written, byte-equal and in order, no more
\* than N of them, and the end of the sequence only after all N; no pull
\* raises an exception.
C1_FileRoundTrip ==
    (/\ OpenedIntact
     /\ wcls = "AstroPix4Hit"
     /\ rd.cls = "AstroPix4Hit"
     /\ Survives(wContent))
    => /\ rd.state \in { "open", "closed" }
       /\ rd.err = ""
       /\ FileHeader_eq(rd.header, wContent)
       /\ Len(rHits) <= Len(wHits)
       /\ \A i \in 1..Len(rHits) : Hit_eq(rHits[i], wHits[i])
       /\ rd.last \in { "none", "hit", "stop" }
       /\ (rd.last = "stop") => (Len(rHits) = Len(wHits))
       /\ rd.pos = HeaderBytes(wContent) + AstroPix4Hit_SIZE * Len(rHits)

C1_Witness ==
    /\ OpenedIntact
    /\ wcls = "AstroPix4Hit"
    /\ rd.cls = "AstroPix4Hit"
    /\ Survives(wContent)
    /\ wContent.items # <<>>
    /\ Len(wHits) = 2
    /\ wHits[1] # wHits[2]
    /\ Len(rHits) = 2
    /\ rd.last = "stop"

\* C2: for a content that survives a JSON encode/decode cycle,
\* FileHeader.read on the bytes FileHeader.write produced raises nothing,
\* returns a header equal by content to the one written, and leaves the
\* file right after the magic word, the 4-byte length and the payload,
\* which is where the first hit record starts.
C2_HeaderRoundTrip ==
    (/\ OpenedIntact
     /\ rd.last = "none"
     /\ Survives(wContent))
    => /\ rd.state \in { "open", "closed" }
       /\ rd.err = ""
       /\ FileHeader_eq(rd.header, wContent)
       /\ rd.pos = Len(FileHeader_write(wContent, byteorder))
       /\ rd.pos = HeaderBytes(wContent)
       /\ SubSeq(disk, rd.pos + 1, Len(disk)) = Concat([i \in 1..Len(wHits) |-> wHits[i].data])

C2_Witness ==
    /\ OpenedIntact
    /\ rd.state = "open"
    /\ rd.last = "none"
    /\ Survives(wContent)
    /\ wContent.items # <<>>
    /\ FileHeader_eq(rd.header, wContent)
    /\ Len(wHits) >= 1
    /\ rd.pos = HeaderBytes(wContent)

\* C27: the host timestamp of a hit is not stored in the file: a hit written
\* with a host time is read back with timestamp None, and every decoded field
\* and every derived field of the hit read back equals that of the hit
\* written.
C27_TimestampNotPersisted ==
    (OpenedIntact /\ rd.cls = wcls) =>
        \A i \in 1..Len(rHits) :
            /\ i <= Len(wHits)
            /\ rHits[i].err = ""
            /\ rHits[i].data = wHits[i].data
            /\ rHits[i].f = wHits[i].f
            /\ rHits[i].d = wHits[i].d
            /\ (wcls = "AstroPix4Hit") => (rHits[i].timestamp = "None")

C27_Witness ==
    /\ OpenedIntact
    /\ wcls = "AstroPix4Hit"
    /\ rd.cls = "AstroPix4Hit"
    /\ Len(rHits) = 2
    /\ wHits[1].timestamp = "t1"
    /\ wHits[2].timestamp = "t1"
    /\ rHits[1].timestamp = "None"
    /\ rHits[2].d.ts_dec1 = wHits[2].d.ts_dec1
    /\ rHits[1] # wHits[1]


\* The bytes left in the file after the place the reader is at.
Remaining == Len(disk) - rd.pos

\* A step that pulls a hit from the open file.
Pull ==
    /\ rd.state = "open"
    /\ rd' # rd
    /\ rd'.state # "closed"
    /\ rd'.err # CallerError

\* C10: a pull from an open file with no byte left gives the end of the
\* sequence and no exception; a pull with 1 to SIZE-1 bytes left raises the
\* exception of the hit constructor and gives no hit; SIZE is 8 for
\* AstroPix4Hit and 5 for AstroPix3Hit.
C10_PullAtEnd ==
    [][ Pull =>
        /\ (Remaining = 0) =>
              /\ rd'.last = "stop"
              /\ rd'.err = ""
              /\ rd'.state = "open"
              /\ rHits' = rHits
        /\ (Remaining \in 1..(SizeOf(rd.cls) - 1)) =>
              /\ rd'.last = "error"
              /\ rd'.err = "ValueError"
              /\ rd'.state = "failed"
              /\ rHits' = rHits ]_vars

C10_Witness ==
    /\ rd.last = "error"
    /\ rd.err = "ValueError"
    /\ rd.cls = "AstroPix3Hit"
    /\ wcls = "AstroPix3Hit"
    /\ cut \in 1..(AstroPix3Hit_SIZE - 1)
    /\ Len(rHits) >= 1


\* The unsigned integer 4 bytes stand for in the byte order of the host.
Native4(b, order) ==
    IF order = "little"
    THEN b[1] + 256 * b[2] + 65536 * b[3] + 16777216 * b[4]
    ELSE b[4] + 256 * b[3] + 65536 * b[2] + 16777216 * b[1]

\* C14: the file FileHeader.write and the hit writes leave is: the 6 bytes
\* %APXDF; a 4-byte unsigned integer N in the byte order of the host; N
\* bytes that are the UTF-8 encoding of the JSON text of the content; then
\* the hit records back to back, SIZE bytes each, with nothing between them
\* or after them.
C14_Layout ==
    (wstate \in { "header", "closed" } /\ cut = 0 /\ damage = "none")
    => /\ Len(disk) >= 10
       /\ SubSeq(disk, 1, 6) = << 37, 65, 80, 88, 68, 70 >>
       /\ LET N == Native4(SubSeq(disk, 7, 10), byteorder)
              S == SizeOf(wcls)
              text == Utf8Decode(SubSeq(disk, 11, 10 + N))
          IN  /\ Len(disk) = 10 + N + S * Len(wHits)
              /\ text.err = ""
              /\ text.text = JsonDumps(wContent)
              /\ \A i \in 1..Len(wHits) :
                    /\ Len(wHits[i].data) = S
                    /\ SubSeq(disk, 10 + N + S * (i - 1) + 1, 10 + N + S * i)
                           = wHits[i].data

C14_Witness ==
    /\ wstate = "closed"
    /\ cut = 0
    /\ damage = "none"
    /\ run.state = "idle"
    /\ wcls = "AstroPix3Hit"
    /\ Len(wHits) = 2
    /\ wHits[1] # wHits[2]
    /\ wContent.items # <<>>
    /\ Len(disk) > 10 + 2 * AstroPix3Hit_SIZE + 8

\* The bytes of the magic word %APXDF, as they stand in a file.
MagicBytes == << 37, 65, 80, 88, 68, 70 >>

\* The file does not start with the magic word: it is too short, or one of
\* its first 6 bytes is another byte.
BadMagic == SubSeq(disk, 1, Min(Len(MagicBytes), Len(disk))) # MagicBytes

\* C11: reading a file whose first 6 bytes are not %APXDF (a file shorter
\* than 6 bytes and bytes that are no UTF-8 text included) fails with the
\* invalid magic word error, before the length is read and before a header
\* or a hit reaches the caller.
C11_InvalidMagic ==
    (rd.handle # "none" /\ BadMagic)
    => /\ rd.state = "failed"
       /\ rd.err = MagicError
       /\ rd.pos <= Len(MagicBytes)
       /\ rd.header = PyNone
       /\ rHits = <<>>


\* C12: the file AstroPixBinaryFile.open opened is closed on every way out
\* of the with block: its normal end, an exception of FileHeader.read (bad
\* magic word, header cut short or no JSON), an exception of a pull and an
\* exception of the caller; it is open only while the block runs.
C12_HandleReleased ==
    /\ (rd.state \in { "closed", "failed" }) => (rd.handle \in { "none", "closed" })
    /\ (rd.state \in { "closed", "failed" } /\ rd.err # ExtensionError)
           => (rd.handle = "closed")
    /\ (rd.handle = "open") => (rd.state = "open")

C12_Witness ==
    /\ rd.state = "failed"
    /\ rd.err = "JSONDecodeError"
    /\ cut > 0
    /\ rd.handle = "closed"


\* ------------------------------------------------------------------------
\* Properties of the acquisition run
\* ------------------------------------------------------------------------

\* C13: in an acquisition run the output file is closed on every way out of
\* the event loop: a stop condition, a keyboard interrupt, and a readout that
\* raises a framing error.
C13_OutputClosed ==
    (run.state \in { "stopped", "interrupted", "crashed" }) => (wstate = "closed")


\* The file holds the header, 10 + N bytes that start with the magic word,
\* and after it whole hit records only: those of the readouts done, in
\* order, then the first k hits of the readout being written.
HeaderThenHits ==
    LET H == HeaderBytes(wContent)
        S == AstroPix4Hit_SIZE
    IN  /\ Len(disk) = H + S * Len(wHits)
        /\ SubSeq(disk, 1, Len(MagicBytes)) = MagicBytes
        /\ \A i \in 1..Len(wHits) :
              SubSeq(disk, H + S * (i - 1) + 1, H + S * i) = wHits[i].data
        /\ (run.state = "hits") =>
              /\ run.k <= Len(wHits)
              /\ \A j \in 1..run.k :
                    wHits[Len(wHits) - run.k + j] = readout.hits[j]

\* C15: in an acquisition run the magic word and the header are written
\* once, before any hit record; every write after it appends one whole hit
\* record of SIZE bytes, the next hit of the readout in decoding order, and
\* changes nothing already written; so from the header on the file is the
\* header (10 + N bytes) followed by whole hit records.
C15_WriteOrdering ==
    /\ [](wstate = "open" => disk = <<>>)
    /\ [](wstate \in { "header", "closed" } => HeaderThenHits)
    /\ [][ (wstate \in { "header", "closed" }) =>
              /\ wContent' = wContent
              /\ \/ disk' = disk
                 \/ /\ run.state = "hits"
                    /\ run.k < Len(readout.hits)
                    /\ disk' = disk \o readout.hits[run.k + 1].data
                    /\ Len(disk') = Len(disk) + AstroPix4Hit_SIZE ]_vars

C15_Witness ==
    /\ run.state = "hits"
    /\ run.num_readouts = 1
    /\ run.k = 1
    /\ Len(readout.hits) = 2
    /\ Len(wHits) = 3
    /\ readout.hits[1] # readout.hits[2]
    /\ wContent.items # <<>>
    /\ Len(disk) = HeaderBytes(wContent) + 3 * AstroPix4Hit_SIZE


\* The buffers of a run that decode: whole 16-byte chunks once the pad
\* bytes at the end are removed, each BC BC, 8 bytes, BC x 6.
GoodBuffers ==
    { b \in RunBuffers : b # <<>> /\ StrippedLen(b) % 16 = 0 /\ BadChunks(b) = {} }

\* The hits of the frames of a buffer that decodes, in frame order.
HitsOfBuffer(b) ==
    [i \in 1..(StrippedLen(b) \div 16) |->
        AstroPix4Hit(reverse_bit_order(SubSeq(b, 16 * (i - 1) + 3, 16 * (i - 1) + 10)),
                     "t1")]

\* C26: persistence is atomic per readout: a readout is decoded as a whole
\* before any of its hits is written, so a readout that fails with a framing
\* error leaves the file as it was; at every point the file holds the header
\* followed by all hits of the readouts decoded so far, in readout order then
\* frame order, and at most a prefix of the hits of the readout being
\* written.
C26_ReadoutAtomicity ==
    /\ [](wstate \in { "header", "closed" } =>
            /\ Len(disk) = HeaderBytes(wContent) + AstroPix4Hit_SIZE * Len(wHits)
            /\ \A i \in 1..Len(wHits) :
                  SubSeq(disk, HeaderBytes(wContent) + AstroPix4Hit_SIZE * (i - 1) + 1,
                         HeaderBytes(wContent) + AstroPix4Hit_SIZE * i) = wHits[i].data
            /\ \E bs \in [1..run.num_readouts -> GoodBuffers] :
                  LET done == Concat([i \in 1..run.num_readouts |-> HitsOfBuffer(bs[i])])
                  IN  IF run.state = "hits"
                      THEN /\ readout.err = ""
                           /\ readout.hits = HitsOfBuffer(rawbuf)
                           /\ wHits = done \o SubSeq(readout.hits, 1, run.k)
                      ELSE IF run.state = "interrupted"
                      THEN \E j \in 0..Len(readout.hits) :
                              wHits = done \o SubSeq(readout.hits, 1, j)
                      ELSE wHits = done)
    /\ [][ (run'.state = "crashed" /\ run.state # "crashed") =>
              /\ disk' = disk
              /\ wHits' = wHits
              /\ readout'.err # ""
              /\ readout'.hits = <<>> ]_vars

\* A readout whose first frame is good and whose second frame is broken
\* failed after a readout of two hits was written.
C26_Witness ==
    /\ run.state = "crashed"
    /\ run.num_readouts = 1
    /\ Len(wHits) = 2
    /\ readout.err = HeaderError
    /\ readout.ndecoded = 1
    /\ StrippedLen(rawbuf) = 32


\* The place of the first hit record in the file: 10 + N, N read from the
\* length field.
FirstRecord == 10 + Native4(SubSeq(disk, 7, 10), byteorder)

\* C16: reading is one pass over the file: the header is there before any
\* pull; the k-th pull gives the record at offset 10 + N + (k - 1) * SIZE
\* and leaves the file right after it, the place in the file never goes
\* back, and a pull after the end of the sequence gives the end of the
\* sequence again and no hit.
C16_SinglePass ==
    /\ [](rd.state = "open" /\ rd.last = "none" =>
              /\ rHits = <<>>
              /\ rd.pos = FirstRecord
              /\ rd.header = JsonLoads(Utf8Decode(SubSeq(disk, 11, FirstRecord)).text).val)
    /\ [][ Pull =>
              LET S == SizeOf(rd.cls)
                  k == Len(rHits) + 1
              IN  /\ rd'.header = rd.header
                  /\ rd'.pos >= rd.pos
                  /\ (rd'.last = "hit") =>
                        /\ rd.pos = FirstRecord + S * (k - 1)
                        /\ rd'.pos = FirstRecord + S * k
                        /\ Len(rHits') = k
                        /\ SubSeq(rHits', 1, k - 1) = rHits
                        /\ rHits'[k].data
                               = SubSeq(disk, FirstRecord + S * (k - 1) + 1,
                                        FirstRecord + S * k)
                  /\ (rd'.last # "hit") => (rHits' = rHits)
                  /\ (rd.last = "stop") => (rd'.last = "stop" /\ rHits' = rHits) ]_vars

C16_Witness ==
    /\ rd.state = "open"
    /\ rd.last = "hit"
    /\ cut > 0
    /\ Len(rHits) = 2
    /\ rHits[1] # rHits[2]
    /\ rd.pos = FirstRecord + 2 * SizeOf(rd.cls)


\* ------------------------------------------------------------------------
\* Properties of the hit codec
\* ------------------------------------------------------------------------

\* Bit i (from 0) of a byte sequence, the most significant bit of every byte
\* first.
BitAt(data, i) == (data[(i \div 8) + 1] \div (2 ^ (7 - (i % 8)))) % 2

\* The unsigned integer the bits start..stop-1 stand for, the first one the
\* most significant.
RECURSIVE BitsToInt(_, _, _)
BitsToInt(data, start, stop) ==
    IF stop <= start THEN 0
    ELSE 2 * BitsToInt(data, start, stop - 1) + BitAt(data, stop - 1)

\* C17: a BitPattern of L bytes holds 8 * L bits, the most significant bit
\* of every byte first and the bytes in order, and for 0 <= start < stop <=
\* 8 * L the slice [start:stop] is the unsigned big-endian integer of those
\* bits, across byte boundaries too; for the bytes BC FF, [0:4] = 11,
\* [4:8] = 12, [8:12] = 15, [12:16] = 15 and [6:10] = 3.
C17_BitSlice ==
    (calc.op = "getitem") =>
        LET L == Len(calc.data)
            TestBytes == calc.data = << 188, 255 >>
            Slice(a, b) == calc.start = a /\ calc.stop = b
        IN  /\ Len(BitPattern(calc.data)) = 8 * L
            /\ \A i \in 0..(8 * L - 1) : BitPattern(calc.data)[i + 1] = BitAt(calc.data, i)
            /\ (0 <= calc.start /\ calc.start < calc.stop /\ calc.stop <= 8 * L) =>
                  /\ calc.err = ""
                  /\ calc.val = BitsToInt(calc.data, calc.start, calc.stop)
            /\ (TestBytes /\ Slice(0, 4)) => (calc.val = 11)
            /\ (TestBytes /\ Slice(4, 8)) => (calc.val = 12)
            /\ (TestBytes /\ Slice(8, 12)) => (calc.val = 15)
            /\ (TestBytes /\ Slice(12, 16)) => (calc.val = 15)
            /\ (TestBytes /\ Slice(6, 10)) => (calc.val = 3)

C17_Witness ==
    /\ calc.op = "getitem"
    /\ calc.data = << 188, 255 >>
    /\ calc.start = 6
    /\ calc.stop = 10
    /\ calc.err = ""
    /\ calc.val = 3

\* C18: a slice of a BitPattern whose stop is past the last bit (stop >
\* 8 * L) raises a decoding error, whatever the start; no integer is made
\* of the bits that are there.
C18_StopPastEnd ==
    (calc.op = "getitem" /\ calc.stop > 8 * Len(calc.data)) => (calc.err # "")

\* C19: a hit constructor given a buffer that is not exactly SIZE bytes,
\* shorter or longer, raises a decoding error and builds no hit.
C19_WrongSizeRejected ==
    (calc.op = "hit" /\ Len(calc.data) # SizeOf(calc.cls)) => (calc.err # "")


\* The Gray code of b, b XOR (b >> 1), bit by bit: bit i of the code is the
\* sum modulo 2 of the bits i and i + 1 of b.
RECURSIVE GrayEncode(_)
GrayEncode(b) ==
    IF b = 0 THEN 0
    ELSE (((b % 2) + ((b \div 2) % 2)) % 2) + 2 * GrayEncode(b \div 2)

\* C20: gray_to_decimal gives a value for every non-negative integer;
\* decoding the Gray code of b gives b; on the 17-bit range the decoded
\* value is in the range and its Gray code is the integer decoded, so that
\* decoding is one-to-one and onto there; gray_to_decimal(0b101) = 0b110.
C20_GrayRoundTrip ==
    (calc.op = "gray") =>
        /\ calc.val >= 0
        /\ gray_to_decimal(GrayEncode(calc.n)) = calc.n
        /\ (calc.n < AstroPix4Hit_CLOCK_ROLLOVER) =>
              /\ calc.val < AstroPix4Hit_CLOCK_ROLLOVER
              /\ GrayEncode(calc.n) < AstroPix4Hit_CLOCK_ROLLOVER
              /\ GrayEncode(calc.val) = calc.n
        /\ (calc.n = 5) => (calc.val = 6)

C20_Witness ==
    /\ calc.op = "gray"
    /\ calc.n = AstroPix4Hit_CLOCK_ROLLOVER - 1
    /\ calc.val = 87381
    /\ GrayEncode(calc.val) = calc.n


\* C21: for a 14-bit coarse and a 3-bit fine counter the timestamp composed,
\* before any rollover correction, is gray_to_decimal((coarse << 3) + fine),
\* the integer whose Gray code has the coarse counter as its 14 high bits
\* and the fine counter as its 3 low bits, and lies in [0, 2^17); coarse =
\* 5167 and fine = 3 give 49581.
C21_ComposeTimestamp ==
    (calc.op = "compose") =>
        LET ts_coarse == calc.data[1]
            ts_fine == calc.data[2]
        IN  /\ calc.val = gray_to_decimal(ts_coarse * 8 + ts_fine)
            /\ calc.val >= 0
            /\ calc.val < 2 ^ 17
            /\ GrayEncode(calc.val) \div 8 = ts_coarse
            /\ GrayEncode(calc.val) % 8 = ts_fine
            /\ (ts_coarse = 5167 /\ ts_fine = 3) => (calc.val = 49581)

C21_Witness ==
    /\ calc.op = "compose"
    /\ calc.data = << 5167, 3 >>
    /\ calc.val = 49581


\* C22: in an AstroPix4 hit ts_dec1 is the first timestamp decoded and
\* ts_dec2 the second one, increased by 2^17 when it is smaller than the
\* first and by nothing otherwise; so ts_dec1 <= ts_dec2 < ts_dec1 + 2^17
\* and the time over threshold in clock cycles, ts_dec2 - ts_dec1 = tot_us *
\* 20, lies in [0, 2^17).
C22_Rollover ==
    (calc.op = "hit" /\ calc.cls = "AstroPix4Hit" /\ calc.err = "") =>
        LET f == calc.hit.f
            d == calc.hit.d
            second == d.ts_dec2 % (2 ^ 17)
        IN  /\ d.ts_dec1 >= 0
            /\ d.ts_dec1 < 2 ^ 17
            /\ GrayEncode(d.ts_dec1) = f["ts_coarse1"] * 8 + f["ts_fine1"]
            /\ GrayEncode(second) = f["ts_coarse2"] * 8 + f["ts_fine2"]
            /\ d.ts_dec2 = IF second < d.ts_dec1 THEN second + 2 ^ 17 ELSE second
            /\ d.ts_dec1 <= d.ts_dec2
            /\ d.ts_dec2 < d.ts_dec1 + 2 ^ 17
            /\ d.tot_us.num = d.ts_dec2 - d.ts_dec1
            /\ d.tot_us.den = 20
            /\ d.tot_us.num >= 0
            /\ d.tot_us.num < 2 ^ 17

C22_Witness ==
    /\ calc.op = "hit"
    /\ calc.cls = "AstroPix4Hit"
    /\ calc.err = ""
    /\ calc.data = ClockHit(52836, 49581)
    /\ calc.hit.d.ts_dec1 = 52836
    /\ calc.hit.d.ts_dec2 = 49581 + 2 ^ 17


\* FIELD_DICT of a hit class.
FieldDictOf(cls) ==
    IF cls = "AstroPix4Hit" THEN AstroPix4Hit_FIELD_DICT ELSE AstroPix3Hit_FIELD_DICT

\* The sum of the widths of the first k fields.
RECURSIVE WidthSum(_, _)
WidthSum(fields, k) ==
    IF k = 0 THEN 0 ELSE WidthSum(fields, k - 1) + fields[k].width

\* C23: for both hit types the widths of the fields sum to SIZE * 8 (64 and
\* 40); field i is read from the bits that start at the sum of the widths
\* of the fields before it, so the fields are disjoint and cover every bit
\* of the record once (the record is the field values put one after the
\* other); and every field value lies in [0, 2^width).
C23_FieldLayout ==
    (calc.op = "hit" /\ calc.err = "" /\ Len(calc.data) = SizeOf(calc.cls)) =>
        LET fields == FieldDictOf(calc.cls)
            f == calc.hit.f
            total == WidthSum(fields, Len(fields))
        IN  /\ total = 8 * SizeOf(calc.cls)
            /\ total = IF calc.cls = "AstroPix4Hit" THEN 64 ELSE 40
            /\ DOMAIN f = { fields[k].name : k \in 1..Len(fields) }
            /\ \A j, k \in 1..Len(fields) : (j # k) => (fields[j].name # fields[k].name)
            /\ \A k \in 1..Len(fields) :
                  LET start == WidthSum(fields, k - 1)
                      v == f[fields[k].name]
                  IN  /\ v = BitsToInt(calc.data, start, start + fields[k].width)
                      /\ v >= 0
                      /\ v < 2 ^ fields[k].width
            /\ \A b \in 0..(total - 1) :
                  LET owners == { k \in 1..Len(fields) :
                                     /\ WidthSum(fields, k - 1) <= b
                                     /\ b < WidthSum(fields, k) }
                  IN  /\ Cardinality(owners) = 1
                      /\ \A k \in owners :
                            BitAt(calc.data, b) =
                                (f[fields[k].name] \div
                                    (2 ^ (WidthSum(fields, k) - 1 - b))) % 2

C23_Witness ==
    /\ calc.op = "hit"
    /\ calc.err = ""
    /\ calc.cls = "AstroPix3Hit"
    /\ Len(calc.data) = AstroPix3Hit_SIZE
    /\ calc.hit.f["tot_lsb"] = calc.data[5]
    /\ calc.hit.f["chip_id"] > 0


RECURSIVE SplitAt(_, _)
SplitAt(str, sep) ==
    IF \A k \in 1..Len(str) : str[k] # sep THEN << str >>
    ELSE LET k == CHOOSE j \in 1..Len(str) :
                      str[j] = sep /\ \A m \in 1..(j - 1) : str[m] # sep
         IN  << SubSeq(str, 1, k - 1) >> \o SplitAt(SubSeq(str, k + 1, Len(str)), sep)

\* The lines of a text whose every line ends with a line break.
LinesOf(str) ==
    LET pieces == SplitAt(str, 10) IN SubSeq(pieces, 1, Len(pieces) - 1)

\* _FIELD_NAMES of a hit class.
FieldNamesOf(cls) ==
    IF cls = "AstroPix4Hit" THEN AstroPix4Hit_FIELD_NAMES ELSE AstroPix3Hit_FIELD_NAMES

\* apxdf_to_csv was called on the file as written, with the hit class it
\* was written with and its .apx path, and is over.
ConvertedValid ==
    /\ tool.op = "csv"
    /\ tool.pc = "done"
    /\ tool.cls = wcls
    /\ EndsWith(tool.file_path, EXTENSION)

\* C25: for a container file with N hits and the hit type given (v4 or v3),
\* apxdf_to_csv writes exactly N + 1 lines: a header line that starts with
\* the comment mark and names the fields of that hit type, raw and derived,
\* in order; then one line per hit, each with as many fields as the header.
C25_CsvConversion ==
    ConvertedValid =>
        LET lines == LinesOf(tool.text)
            names == FieldNamesOf(tool.cls)
        IN  /\ tool.err = ""
            /\ tool.created
            /\ tool.text # <<>> /\ tool.text[Len(tool.text)] = 10
            /\ Len(lines) = Len(wHits) + 1
            /\ lines[1] = << 35, 32 >>
                          \o StrJoin(<< 44 >>, [k \in 1..Len(names) |-> NameText(names[k])])
            /\ \A n \in 2..Len(lines) :
                  Len(SplitAt(lines[n], 44)) = Len(names)

\* The same for AstroPix4 files only, where the conversion does what is
\* said; row n gives the fields of hit n in the order of the header.
CsvOfAstroPix4 ==
    (ConvertedValid /\ tool.cls = "AstroPix4Hit") =>
        LET lines == LinesOf(tool.text)
            names == AstroPix4Hit_FIELD_NAMES
        IN  /\ tool.err = ""
            /\ Len(lines) = Len(wHits) + 1
            /\ SplitAt(SubSeq(lines[1], 3, Len(lines[1])), 44)
                  = [k \in 1..Len(names) |-> NameText(names[k])]
            /\ \A n \in 2..Len(lines) :
                  LET row == SplitAt(lines[n], 44)
                  IN  /\ Len(row) = Len(names)
                      /\ \A k \in 1..12 :
                            row[k] = IntStr(wHits[n - 1].f[names[k]])

\* playback_file was called on an AstroPix4 file as written, with its .apx
\* path, and is over.
PlayedValid ==
    /\ tool.op = "playback"
    /\ tool.pc = "done"
    /\ wcls = "AstroPix4Hit"
    /\ EndsWith(tool.file_path, EXTENSION)

\* The prints of one kind.
PrintsOf(kind) == SelectSeq(tool.stdout, LAMBDA p : p.kind = kind)

\* C28: for every valid container file with N >= 0 hits, N = 0 and N greater
\* than num_hits among them, playback_file ends without raising, prints at
\* most num_hits hits, and the count of its 'hits found' line is N.
C28_PlaybackTotal ==
    PlayedValid =>
        /\ tool.err = ""
        /\ Len(PrintsOf("hit")) <= tool.num_hits
        /\ Len(PrintsOf("found")) = 1
        /\ \A k \in 1..Len(PrintsOf("found")) : PrintsOf("found")[k].n = Len(wHits)


\* ------------------------------------------------------------------------
\* Properties of the threshold search
\* ------------------------------------------------------------------------

\* A step of the search that makes a measurement.
Measured == scan'.n = scan.n + 1

\* C29: the threshold search terminates: from vth_start = 1 and vth_stop =
\* 400, whatever the measurements return, 1 <= vth_start < vth_stop <= 400
\* holds throughout, every probe value lies strictly between the two bounds,
\* every measurement moves one bound to the probe value and so shrinks
\* vth_stop - vth_start, and the loop stops after at most 9 measurements,
\* with vth_stop - vth_start = 1.
C29_SearchTerminates ==
    /\ []((scan.pc = "search" \/ scan.n > 0) =>
            /\ VTH_START <= scan.vth_start
            /\ scan.vth_start < scan.vth_stop
            /\ scan.vth_stop <= VTH_STOP
            /\ scan.n <= 9
            /\ (scan.pc = "search") => (scan.vth_stop - scan.vth_start >= 2 /\ scan.n < 9)
            /\ (scan.pc = "idle") => (scan.vth_stop - scan.vth_start = 1))
    /\ [][ Measured =>
              /\ scan.vth_start < scan'.vth_val
              /\ scan'.vth_val < scan.vth_stop
              /\ \/ scan'.vth_start = scan'.vth_val /\ scan'.vth_stop = scan.vth_stop
                 \/ scan'.vth_stop = scan'.vth_val /\ scan'.vth_start = scan.vth_start
              /\ scan'.vth_stop - scan'.vth_start < scan.vth_stop - scan.vth_start ]_vars
    /\ ((scan.pc = "search") ~> (scan.pc = "idle"))

\* A search that took 9 measurements, the last probe being a half rounded
\* to the even neighbour above.
C29_Witness ==
    /\ scan.pc = "idle"
    /\ scan.n = 9
    /\ scan.pixel = 2
    /\ scan.vth_stop - scan.vth_start = 1
    /\ scan.vth_start > VTH_START
    /\ scan.vth_stop < VTH_STOP

\* ------------------------------------------------------------------------
\* Properties of Spi.write_spi
\* ------------------------------------------------------------------------

\* C30: when write_spi returns, the buffers given to direct_write_spi, one
\* after the other, are the data: every byte was sent once, in order, and
\* none is left in the write buffer.
C30_AllDataSent ==
    (spi.pc = "returned") =>
        /\ Concat(spi.sent) = spi.data
        /\ spi.writebuffer = <<>>

\* What the code does instead: the bytes sent are the first ones of the
\* data, in order, and the write buffer holds the rest; nothing is left
\* exactly when the length of the data is 4 more than a multiple of 5 (or
\* less than 4, with nothing sent, for no data at all).
SentIsPrefix ==
    (spi.pc = "returned") =>
        /\ Concat(spi.sent) \o spi.writebuffer = spi.data
        /\ (spi.writebuffer = <<>>) <=> (Len(spi.data) % 5 = 4 \/ spi.data = <<>>)

====
